---- MODULE Spec2Model ----
(***************************************************************************)
(* Verification model of magnets.moe (processor + common crates).          *)
(*                                                                         *)
(* The module holds one state machine per component:                       *)
(*   SpecHeap   - processor/src/heap.rs        AsciiHeap new / find / iter *)
(*   SpecClient - processor/src/anilist_client.rs, sleeper.rs    request   *)
(*   SpecSched  - processor/src/scheduled.rs, anilist/shows.rs             *)
(*   SpecShowDb - processor/src/show_db.rs     ShowDbHolder get / refresh  *)
(*   SpecPg     - common/src/pg.rs             PgHolder, keep_connected    *)
(*   SpecSearch - processor/src/title_analyzer.rs   search                 *)
(*   SpecDb     - processor/src/show_db.rs     build_db and search         *)
(*   SpecNorm   - processor/src/title_analyzer.rs   normalize_title        *)
(*   SpecNyaa   - processor/src/nyaa.rs        load_torrents_              *)
(*   SpecMatch  - processor/src/matcher.rs     match_unmatched             *)
(*   SpecRound  - processor/src/title_analyzer.rs   find_show              *)
(*   SpecSeason - processor/src/show_db.rs     find_season                 *)
(*   SpecPage   - processor/src/anilist/shows.rs    load_shows_page        *)
(*   SpecWatch  - processor/src/db_state.rs    DbWatcher (SpecWatchLive:   *)
(*                the same with the tasks taken to run)                    *)
(* Each specification drives its own variables and leaves the variables of *)
(* the other components at their initial value.                            *)
(***************************************************************************)
EXTENDS Integers, Sequences, FiniteSets, TLC

(***************************************************************************)
(* Generic helpers                                                         *)
(***************************************************************************)
Range(s) == { s[i] : i \in 1..Len(s) }

Last(s) == s[Len(s)]

Front(s) == SubSeq(s, 1, Len(s) - 1)

\* Option<T>: None is the empty sequence, Some(x) is <<x>>
None == << >>

Some(x) == << x >>

SeqsUpTo(S, n) == UNION { [1..k -> S] : k \in 0..n }

(***************************************************************************)
(* State.  Every component has its own variables; an action of one         *)
(* component leaves the variables of all the others unchanged.             *)
(***************************************************************************)

\* AsciiHeap (heap.rs)
VARIABLES
    h_strs,   \* the (key, payload) list handed to AsciiHeap::new
    h_query,  \* the string handed to find
    h_heap,   \* the AsciiHeap built: [payloads, nodes]
    h_pc,     \* input, built, found (find on an input key), queried
    h_arg,    \* the input pair whose key was looked up (0: the query)
    h_idx,    \* the node index find returned
    h_out     \* what iter yielded below that node

heapVars == << h_strs, h_query, h_heap, h_pc, h_arg, h_idx, h_out >>

\* AnilistClient (anilist_client.rs, sleeper.rs)
VARIABLES
    c_lock,        \* holder of AnilistClient::inner (0: free)
    c_sleeperAge,  \* Inner::sleeper: seconds since the Instant it holds
    c_retry_after, \* Inner::retry_after
    c_pc,          \* per caller: idle, lock, gap, inflight, backoff
    c_timer,       \* per caller: seconds left on the timer it sleeps on
    c_err,         \* per caller: outcome of its last failed attempt
    c_sinceFail,   \* per caller: seconds since that attempt failed
    c_isRetry,     \* per caller: its current attempt follows a backoff
    c_retrySlept,  \* per caller: seconds between that failure and the retry
    c_sinceStart,  \* seconds since the most recent attempt started (-1: none)
    c_sinceDue,    \* seconds since the most recent attempt was due: its gap
                   \* deadline when it waited for the gap, else its start
    c_startGap,    \* most recent attempt: seconds since the start of the one before
    c_dueGap,      \* most recent attempt: seconds since the one before was due
    c_markLag      \* most recent attempt: age of the sleeper's Instant at its start

clientVars == << c_lock, c_sleeperAge, c_retry_after, c_pc, c_timer, c_err,
                 c_sinceFail, c_isRetry, c_retrySlept, c_sinceStart, c_sinceDue,
                 c_startGap, c_dueGap, c_markLag >>

\* Scheduled (scheduled.rs) driven by the loop of load_shows (anilist/shows.rs)
VARIABLES
    s_pc,         \* read, select, waitErr, work, workErr, update, updateErr, refresh
    s_lastAge,    \* magnets.state[key]: minutes since the timestamp it holds
    s_readAge,    \* wait_: minutes since the timestamp `last` it read
    s_notified,   \* the key's Notify holds a notification not yet consumed
    s_timer,      \* minutes left on the delay_for the loop sleeps on
    s_nowAge,     \* update_: minutes since the `now` it took
    s_wake,       \* how the latest select ended: none, sleep, notifier
    s_wakeAge,    \* s_readAge when the latest select ended by the sleep (-1: none)
    s_reread,     \* the notifier made wait_ read again since the loop came back
    s_work,       \* result of the latest work invocation: none, ok, err
    s_upd,        \* what update() did after it: none, written, failed
    s_wroteSince, \* the scheduler wrote state[key] since that invocation began
    s_sinceUpd,   \* minutes since update_ was entered
    s_writeDiff,  \* at the write: age of the value written minus s_sinceUpd
    s_slept       \* minutes slept since the latest failure of work or update_

schedVars == << s_pc, s_lastAge, s_readAge, s_notified, s_timer, s_nowAge, s_wake,
                s_wakeAge, s_reread, s_work, s_upd, s_wroteSince, s_sinceUpd,
                s_writeDiff, s_slept >>

\* ShowDbHolder (show_db.rs)
VARIABLES
    d_db,        \* the database: version of the tables magnets.show, show_name
    d_objs,      \* the ShowDb values allocated by Arc::new, by address
    d_show_db,   \* ShowDbHolder::show_db: 0 for None, else the address held
    d_lock,      \* holder of the Mutex around show_db (0: free)
    d_pc,        \* per task: idle, get_lock, get_load, refresh_load, refresh_lock
    d_load,      \* per task: the load_db it runs
    d_new,       \* per task: refresh: the Arc it is about to store
    d_held,      \* per task: the Arc its latest Ok get returned (0: none)
    d_seen,      \* per task: what that ShowDb held when get returned
    d_loads,     \* number of load_db calls begun so far
    d_published, \* the addresses stored in show_db so far
    d_failed     \* history, per task: its latest call returned the error of
                 \* load_db: none, get, refresh

showDbVars == << d_db, d_objs, d_show_db, d_lock, d_pc, d_load, d_new, d_held,
                 d_seen, d_loads, d_published, d_failed >>

\* PgHolder (common/src/pg.rs)
VARIABLES
    p_cons,     \* the connections created so far, in order: TRUE while alive
    p_version,  \* PgHolderCon::version
    p_pg,       \* PgHolderCon::pg: 0 for None, else the connection held
    p_join,     \* PgHolderCon::join_handle: 0 for None, else the connection driven
    p_lock,     \* holder of the Mutex around PgHolderCon (0: free, -1: keep_connected)
    p_pc,       \* per borrower: idle, read, probe, connect, create
    p_ver,      \* per borrower: `ver` of borrow
    p_con,      \* per borrower: `con` of borrow (0: None)
    p_handle,   \* per borrower: the Arc<Pg> its latest borrow returned, until
                \* it drops it (0: none)
    k_pc,       \* keep_connected: take, join, connect, create, sleep
    k_ver,      \* keep_connected: `ver`
    k_jh,       \* keep_connected: the connection whose join handle it awaits
    p_failSeen, \* the latest connection some borrow probed and found failed
                \* (0: none)
    p_known,    \* per borrower: p_failSeen when its latest borrow was called
    p_retAlive  \* per borrower: its handle was alive when that borrow probed it

pgVars == << p_cons, p_version, p_pg, p_join, p_lock, p_pc, p_ver, p_con, p_handle,
             k_pc, k_ver, k_jh, p_failSeen, p_known, p_retAlive >>

\* search (title_analyzer.rs)
VARIABLES
    q_pc,      \* input, done
    q_shows,   \* ShowDb::shows
    q_entry,   \* the entry of ShowDb::map for the search name: indices of shows
    q_meta,    \* the TitleMetadata handed to search: [season, year]
    q_res      \* what search returned

searchVars == << q_pc, q_shows, q_entry, q_meta, q_res >>

\* ShowDb built by build_db (show_db.rs) and searched by search (title_analyzer.rs)
VARIABLES
    b_pc,      \* input, built, searched (idle: not part of the run)
    b_shows,   \* the shows of load_shows, in row order
    b_names,   \* the rows of load_names (show index, name), ordered by show
    b_db,      \* the ShowDb: shows, map, heap
    b_title,   \* the pre-episode title last searched
    b_res      \* the result of that search

dbVars == << b_pc, b_shows, b_names, b_db, b_title, b_res >>

\* normalize_title applied to a raw title, and to its own result
VARIABLES
    n_pc,      \* input, once, twice (idle: not part of the run)
    n_title,   \* the raw title
    n_once,    \* normalize_title(title, find_separator(title))
    n_twice    \* the same applied to n_once

normVars == << n_pc, n_title, n_once, n_twice >>

\* load_torrents_ (nyaa.rs): one scrape of the torrent listing
VARIABLES
    y_pc,        \* start, fetch, ingest, done, failed (idle: not part of the run)
    y_store,     \* magnets.torrent: row torrent_id holds [nyaa_id, matched]
    y_links,     \* magnets.rel_torrent_show: set of [torrent_id, show]
    y_state,     \* magnets.state[max_nyaa_si_id]
    y_max,       \* max_nyaa_id, as read at the start of the scrape
    y_torrents,  \* the batch: [nyaa_id, show, torrent_id]
    y_pages,     \* history: the pages fetched so far, as sequences of rows
    y_old,       \* history: store and links before the transaction
    y_ran,       \* history: the batch positions find_show was called for
    y_i,         \* the loop variable of `for i in 1..=100`
    y_asked      \* history: the page numbers scrape_page was called with

nyaaVars == << y_pc, y_store, y_links, y_state, y_max, y_torrents, y_pages, y_old, y_ran,
              y_i, y_asked >>

\* match_unmatched (matcher.rs): one rematch run
VARIABLES
    m_pc,        \* read, run, done (idle: not part of the run)
    m_state,     \* magnets.state[rematch_unmatched]
    m_mode,      \* the RematchMode of this run
    m_torrents,  \* magnets.torrent: row torrent_id holds [show, matched]
    m_links,     \* magnets.rel_torrent_show: set of [torrent_id, show]
    m_old,       \* history: torrents and links when the run began
    m_ran,       \* history: the torrents find_show was called for
    m_end        \* history: none, committed, failed

matchVars == << m_pc, m_state, m_mode, m_torrents, m_links, m_old, m_ran, m_end >>

\* find_show on the title made from a name of a show of the database
VARIABLES
    r_pc,      \* input, built, found (idle: not part of the run)
    r_shows,   \* the shows load_shows returned
    r_names,   \* the rows load_names returned
    r_db,      \* the ShowDb build_db made
    r_romaji,  \* the row whose name the title is made from, 0 before
    r_res,     \* the result of find_show
    r_an,      \* what find_show made of the title: the ranges and the flag
    r_log      \* the calls of search find_show made, in order, with their outcome

roundVars == << r_pc, r_shows, r_names, r_db, r_romaji, r_res, r_an, r_log >>

\* find_season applied to a string
VARIABLES
    e_pc,      \* input, done (idle: not part of the run)
    e_pieces,  \* the string, as the pieces it is put together from
    e_res      \* the result of find_season

seasonVars == << e_pc, e_pieces, e_res >>

\* load_shows_page (anilist/shows.rs)
VARIABLES
    g_pc,        \* request, loop, done, failed (idle: not part of the run)
    g_shows,     \* magnets.show as committed: row show_id holds [anilist_id, format, season]
    g_names,     \* magnets.show_name as committed: row show_name_id holds [show_id, type, name]
    g_existing,  \* `existing`: the shows load_shows_from_db found, by anilist id
    g_media,     \* data.page.media
    g_i,         \* the position of `for x in &data.page.media`
    g_tshows,    \* magnets.show as the transaction sees it
    g_tnames,    \* magnets.show_name as the transaction sees it
    g_wrote      \* history: for every record gone through, whether a statement ran for it

pageVars == << g_pc, g_shows, g_names, g_existing, g_media, g_i, g_tshows, g_tnames, g_wrote >>

\* DbWatcher and WatchMessageHandler (db_state.rs) on the connection of the holder
VARIABLES
    w_con,     \* the connection attempt: down, connected, listened, up (idle: not part of the run)
    w_permit,  \* per notifier: the Notify holds a notification not yet consumed
    w_pc,      \* per notifier: its task is at notified() (wait) or past it (read)
    w_last     \* history: the latest payload handed to handle ("": none)

watchVars == << w_con, w_permit, w_pc, w_last >>

notHeap == << clientVars, schedVars, showDbVars, pgVars, searchVars, dbVars, normVars, nyaaVars, matchVars, roundVars, seasonVars, pageVars, watchVars >>

notClient == << heapVars, schedVars, showDbVars, pgVars, searchVars, dbVars, normVars, nyaaVars, matchVars, roundVars, seasonVars, pageVars, watchVars >>

notSched == << heapVars, clientVars, showDbVars, pgVars, searchVars, dbVars, normVars, nyaaVars, matchVars, roundVars, seasonVars, pageVars, watchVars >>

notShowDb == << heapVars, clientVars, schedVars, pgVars, searchVars, dbVars, normVars, nyaaVars, matchVars, roundVars, seasonVars, pageVars, watchVars >>

notPg == << heapVars, clientVars, schedVars, showDbVars, searchVars, dbVars, normVars, nyaaVars, matchVars, roundVars, seasonVars, pageVars, watchVars >>

notSearch == << heapVars, clientVars, schedVars, showDbVars, pgVars, dbVars, normVars, nyaaVars, matchVars, roundVars, seasonVars, pageVars, watchVars >>

notDb == << heapVars, clientVars, schedVars, showDbVars, pgVars, searchVars, normVars, nyaaVars, matchVars, roundVars, seasonVars, pageVars, watchVars >>

notNorm == << heapVars, clientVars, schedVars, showDbVars, pgVars, searchVars, dbVars, nyaaVars, matchVars, roundVars, seasonVars, pageVars, watchVars >>

notNyaa == << heapVars, clientVars, schedVars, showDbVars, pgVars, searchVars, dbVars, normVars, matchVars, roundVars, seasonVars, pageVars, watchVars >>

notMatch == << heapVars, clientVars, schedVars, showDbVars, pgVars, searchVars, dbVars, normVars, nyaaVars, roundVars, seasonVars, pageVars, watchVars >>

notRound == << heapVars, clientVars, schedVars, showDbVars, pgVars, searchVars, dbVars, normVars, nyaaVars, matchVars, seasonVars, pageVars, watchVars >>

notSeason == << heapVars, clientVars, schedVars, showDbVars, pgVars, searchVars, dbVars, normVars, nyaaVars, matchVars, roundVars, pageVars, watchVars >>

notPage == << heapVars, clientVars, schedVars, showDbVars, pgVars, searchVars, dbVars, normVars, nyaaVars, matchVars, roundVars, seasonVars, watchVars >>

notWatch == << heapVars, clientVars, schedVars, showDbVars, pgVars, searchVars, dbVars, normVars, nyaaVars, matchVars, roundVars, seasonVars, pageVars >>

vars == << heapVars, clientVars, schedVars, showDbVars, pgVars, searchVars, dbVars, normVars, nyaaVars, matchVars, roundVars, seasonVars, pageVars, watchVars >>

(***************************************************************************)
(* ======================  AsciiHeap (heap.rs)  =========================  *)
(***************************************************************************)

\* Bounds of the heap model: number of (key, payload) pairs handed to
\* AsciiHeap::new, and the total number of bytes of all keys plus the query.
MaxPairs == 2

MaxTotalLen == 4

\* The bytes keys and queries are made of: 'a', 'b', 'A', '-'
Bytes == {97, 98, 65, 45}

\* u8::to_ascii_lowercase
to_ascii_lowercase(c) == IF c >= 65 /\ c <= 90 THEN c + 32 ELSE c

\* matches!(c, b'a'..=b'z' | b'0'..=b'9')
IsLowerAlnum(c) == (c >= 97 /\ c <= 122) \/ (c >= 48 /\ c <= 57)

\* Ord for byte slices: lexicographic, a proper prefix is smaller
RECURSIVE SliceLeq(_, _)
SliceLeq(a, b) ==
    IF Len(a) = 0 THEN TRUE
    ELSE IF Len(b) = 0 THEN FALSE
    ELSE IF a[1] < b[1] THEN TRUE
    ELSE IF a[1] > b[1] THEN FALSE
    ELSE SliceLeq(Tail(a), Tail(b))

\* Step 1 of AsciiHeap::new, inner loop: the bytes of one key are lowercased,
\* filtered and appended to lc; every kept byte creates a PreData for the
\* prefix ending there.
RECURSIVE PushKeyBytes(_, _, _, _)
PushKeyBytes(s, i, start, acc) ==
    IF i > Len(s) THEN acc
    ELSE LET c == to_ascii_lowercase(s[i])
         IN IF IsLowerAlnum(c)
            THEN LET lc2 == Append(acc.lc, c)
                 IN PushKeyBytes(s, i + 1, start,
                        [lc |-> lc2,
                         pre_datas |-> Append(acc.pre_datas,
                             [start |-> start, end |-> Len(lc2), payload |-> None])])
            ELSE PushKeyBytes(s, i + 1, start, acc)

\* Step 1 of AsciiHeap::new, outer loop over the (key, payload) pairs
RECURSIVE BuildPreDatas(_, _, _)
BuildPreDatas(strs, k, acc) ==
    IF k > Len(strs) THEN acc
    ELSE LET start == Len(acc.lc)
             a2 == PushKeyBytes(strs[k].key, 1, start, acc)
             n == Len(a2.pre_datas)
         IN IF start < Len(a2.lc)
            THEN BuildPreDatas(strs, k + 1,
                     [lc |-> a2.lc,
                      pre_datas |-> [a2.pre_datas EXCEPT ![n].payload = Some(strs[k].payload)]])
            ELSE BuildPreDatas(strs, k + 1, a2)

\* &lc[data.substring_range.clone()]
PreKey(lc, pd) == SubSeq(lc, pd.start + 1, pd.end)

\* Step 2: pre_datas.sort_by_key (a stable sort): x goes after every element
\* whose key is <= its key
RECURSIVE InsertByKey(_, _, _)
InsertByKey(lc, sorted, x) ==
    IF Len(sorted) = 0 THEN << x >>
    ELSE IF SliceLeq(PreKey(lc, Last(sorted)), PreKey(lc, x))
         THEN Append(sorted, x)
         ELSE Append(InsertByKey(lc, Front(sorted), x), Last(sorted))

RECURSIVE SortPreDatas(_, _, _)
SortPreDatas(lc, pds, n) ==
    IF n = 0 THEN << >>
    ELSE InsertByKey(lc, SortPreDatas(lc, pds, n - 1), pds[n])

\* stack.pop() executed n times
RECURSIVE PopN(_, _)
PopN(stack, n) == IF n <= 0 \/ Len(stack) = 0 THEN stack ELSE PopN(Front(stack), n - 1)

\* Mutant of Step3One: the payload of a duplicate key is pushed but the range
\* of the node it belongs to is not extended
Step3One_lost_duplicate(lc, pd, st) ==
    LET letter == lc[pd.end]
        len == pd.end - pd.start
        is_duplicate == (letter = st.prev_letter /\ len = st.prev_len)
        hasPayload == pd.payload # None
        payloads2 == IF hasPayload THEN Append(st.payloads, pd.payload[1]) ELSE st.payloads
        np == Len(st.payloads)
        nd == Len(st.datas)
    IN IF is_duplicate
       THEN [st EXCEPT !.payloads = payloads2]
       ELSE LET stack1 == IF len <= st.prev_len
                          THEN PopN(st.stack, st.prev_len - len + 1)
                          ELSE st.stack
                hasParent == Len(stack1) > 0
                datas2 == IF hasParent
                          THEN [st.datas EXCEPT ![Last(stack1) + 1].num_children = @ + 1]
                          ELSE st.datas
            IN [payloads |-> payloads2,
                datas |-> Append(datas2,
                    [letter |-> letter,
                     payload_range |-> [start |-> np,
                                        end |-> IF hasPayload THEN np + 1 ELSE np],
                     num_children |-> 0,
                     parent |-> IF hasParent THEN Some(Last(stack1)) ELSE None,
                     heap_pos |-> 0, children_heap_pos |-> 0, next_child_pos |-> 0]),
                num_single_letter |-> IF hasParent THEN st.num_single_letter
                                      ELSE st.num_single_letter + 1,
                stack |-> Append(stack1, nd),
                prev_letter |-> letter,
                prev_len |-> len]

\* Step 3 of AsciiHeap::new: one iteration of `for pre_data in pre_datas`
Step3One(lc, pd, st) ==
    LET letter == lc[pd.end]
        len == pd.end - pd.start
        is_duplicate == (letter = st.prev_letter /\ len = st.prev_len)
        hasPayload == pd.payload # None
        payloads2 == IF hasPayload THEN Append(st.payloads, pd.payload[1]) ELSE st.payloads
        np == Len(st.payloads)
        payload_range == [start |-> np,
                          end |-> IF hasPayload /\ ~is_duplicate THEN np + 1 ELSE np]
        nd == Len(st.datas)
        datas1 == IF hasPayload /\ is_duplicate
                  THEN [st.datas EXCEPT ![nd].payload_range.end = @ + 1]
                  ELSE st.datas
    IN IF is_duplicate
       THEN [st EXCEPT !.payloads = payloads2, !.datas = datas1]
       ELSE LET stack1 == IF len <= st.prev_len
                          THEN PopN(st.stack, st.prev_len - len + 1)
                          ELSE st.stack
                hasParent == Len(stack1) > 0
                parent == IF hasParent THEN Some(Last(stack1)) ELSE None
                datas2 == IF hasParent
                          THEN [datas1 EXCEPT ![Last(stack1) + 1].num_children = @ + 1]
                          ELSE datas1
            IN [payloads |-> payloads2,
                datas |-> Append(datas2,
                    [letter |-> letter, payload_range |-> payload_range,
                     num_children |-> 0, parent |-> parent,
                     heap_pos |-> 0, children_heap_pos |-> 0, next_child_pos |-> 0]),
                num_single_letter |-> IF hasParent THEN st.num_single_letter
                                      ELSE st.num_single_letter + 1,
                stack |-> Append(stack1, nd),
                prev_letter |-> letter,
                prev_len |-> len]

RECURSIVE Step3(_, _, _, _)
Step3(lc, pds, i, st) ==
    IF i > Len(pds) THEN st ELSE Step3(lc, pds, i + 1, Step3One(lc, pds[i], st))

\* Step 4 of AsciiHeap::new: heap positions; `datas` is walked in array order
RECURSIVE Step4(_, _, _, _)
Step4(datas, i, next_free_node_position, next_one_letter_pos) ==
    IF i > Len(datas) THEN datas
    ELSE LET data == datas[i]
             hasParent == data.parent # None
             pidx == IF hasParent THEN data.parent[1] + 1 ELSE i
             pos == IF hasParent THEN datas[pidx].next_child_pos ELSE next_one_letter_pos
             d1 == IF hasParent
                   THEN [datas EXCEPT ![pidx].next_child_pos = @ + 1]
                   ELSE datas
             d2 == [d1 EXCEPT ![i].heap_pos = pos,
                              ![i].children_heap_pos = next_free_node_position,
                              ![i].next_child_pos = next_free_node_position]
         IN Step4(d2, i + 1, next_free_node_position + data.num_children,
                  IF hasParent THEN next_one_letter_pos ELSE next_one_letter_pos + 1)

\* Step 5: datas.sort_by_key(|d| d.heap_pos.get())
RECURSIVE InsertByPos(_, _)
InsertByPos(sorted, x) ==
    IF Len(sorted) = 0 THEN << x >>
    ELSE IF Last(sorted).heap_pos <= x.heap_pos
         THEN Append(sorted, x)
         ELSE Append(InsertByPos(Front(sorted), x), Last(sorted))

RECURSIVE SortByHeapPos(_, _)
SortByHeapPos(datas, n) ==
    IF n = 0 THEN << >> ELSE InsertByPos(SortByHeapPos(datas, n - 1), datas[n])

\* Mutant of DataToNode: the children are said to start at the node itself
DataToNode_children_at_self(data) ==
    [letter |-> data.letter, num_children |-> data.num_children,
     pos_children |-> data.heap_pos, payloads |-> data.payload_range]

\* Step 5: a Data becomes a Node
DataToNode(data) ==
    [letter |-> data.letter, num_children |-> data.num_children,
     pos_children |-> data.children_heap_pos, payloads |-> data.payload_range]

\* AsciiHeap::new.  nodes[i + 1] is the node at index i of the Rust array.
AsciiHeapNew(strs) ==
    LET pre == BuildPreDatas(strs, 1, [lc |-> << >>, pre_datas |-> << >>])
        sorted == SortPreDatas(pre.lc, pre.pre_datas, Len(pre.pre_datas))
        s3 == Step3(pre.lc, sorted, 1,
                    [payloads |-> << >>, datas |-> << >>, num_single_letter |-> 0,
                     stack |-> << >>, prev_letter |-> 0, prev_len |-> 0])
        s4 == Step4(s3.datas, 1, s3.num_single_letter + 1, 1)
        s5 == SortByHeapPos(s4, Len(s4))
        root == [letter |-> 0, num_children |-> s3.num_single_letter,
                 pos_children |-> 1, payloads |-> [start |-> 0, end |-> 0]]
    IN [payloads |-> s3.payloads,
        nodes |-> << root >> \o [i \in 1..Len(s5) |-> DataToNode(s5[i])]]

\* Node::children as a set of indices
NodeChildren(node) == node.pos_children .. (node.pos_children + node.num_children - 1)

\* AsciiHeap::find
RECURSIVE find_from(_, _, _, _)
find_from(heap, s, i, idx) ==
    IF i > Len(s) THEN idx
    ELSE LET c == s[i]
         IN IF IsLowerAlnum(c)
            THEN LET hits == { k \in NodeChildren(heap.nodes[idx + 1]) :
                                   heap.nodes[k + 1].letter = c }
                 IN IF hits # {}
                    THEN find_from(heap, s, i + 1,
                                   CHOOSE k \in hits : \A k2 \in hits : k <= k2)
                    ELSE idx
            ELSE find_from(heap, s, i + 1, idx)

\* Mutant of find: a missing child does not end the scan (`continue` for `break`)
RECURSIVE find_from_nobreak(_, _, _, _)
find_from_nobreak(heap, s, i, idx) ==
    IF i > Len(s) THEN idx
    ELSE LET hits == { k \in NodeChildren(heap.nodes[idx + 1]) :
                           heap.nodes[k + 1].letter = s[i] }
         IN find_from_nobreak(heap, s, i + 1,
                IF IsLowerAlnum(s[i]) /\ hits # {}
                THEN CHOOSE k \in hits : \A k2 \in hits : k <= k2
                ELSE idx)

find_nobreak(heap, s) == find_from_nobreak(heap, s, 1, 0)

find(heap, s) == find_from(heap, s, 1, 0)

\* AsciiHeap::iter: the fresh iterator over the sub-tree below idx
iter(idx) ==
    [cur |-> [start |-> idx, end |-> idx + 1], todo |-> << >>, payloads |-> << >>]

\* Mutant of IterStep: the children of a visited node are not pushed to todo
IterStep_children_not_pushed(heap, it) ==
    IF Len(it.payloads) > 0
    THEN [kind |-> "item", item |-> Head(it.payloads),
          it |-> [it EXCEPT !.payloads = Tail(it.payloads)]]
    ELSE IF it.cur.start >= it.cur.end /\ Len(it.todo) = 0
    THEN [kind |-> "none", item |-> 0, it |-> it]
    ELSE LET popped == it.cur.start >= it.cur.end
             cur1 == IF popped THEN Last(it.todo) ELSE it.cur
             todo1 == IF popped THEN Front(it.todo) ELSE it.todo
             node == heap.nodes[cur1.start + 1]
         IN [kind |-> "node", item |-> 0,
             it |-> [cur |-> [cur1 EXCEPT !.start = @ + 1],
                     todo |-> todo1,
                     payloads |-> IF node.payloads.start < node.payloads.end
                                  THEN SubSeq(heap.payloads, node.payloads.start + 1,
                                              node.payloads.end)
                                  ELSE << >>]]

\* Iter::next, one turn of its loops: either the pending payload slice yields
\* an item, or the iterator is exhausted, or one more node is visited.
IterStep(heap, it) ==
    IF Len(it.payloads) > 0
    THEN [kind |-> "item", item |-> Head(it.payloads),
          it |-> [it EXCEPT !.payloads = Tail(it.payloads)]]
    ELSE IF it.cur.start >= it.cur.end /\ Len(it.todo) = 0
    THEN [kind |-> "none", item |-> 0, it |-> it]
    ELSE LET popped == it.cur.start >= it.cur.end
             cur1 == IF popped THEN Last(it.todo) ELSE it.cur
             todo1 == IF popped THEN Front(it.todo) ELSE it.todo
             node == heap.nodes[cur1.start + 1]
             todo2 == IF node.num_children > 0
                      THEN Append(todo1, [start |-> node.pos_children,
                                          end |-> node.pos_children + node.num_children])
                      ELSE todo1
         IN [kind |-> "node", item |-> 0,
             it |-> [cur |-> [cur1 EXCEPT !.start = @ + 1],
                     todo |-> todo2,
                     payloads |-> IF node.payloads.start < node.payloads.end
                                  THEN SubSeq(heap.payloads, node.payloads.start + 1,
                                              node.payloads.end)
                                  ELSE << >>]]

\* Iter::next called until it returns None; `fuel` bounds the number of turns,
\* `finished` tells whether None was reached within it.
RECURSIVE IterCollect(_, _, _, _)
IterCollect(heap, it, fuel, out) ==
    IF fuel = 0 THEN [out |-> out, finished |-> FALSE]
    ELSE LET r == IterStep(heap, it)
         IN IF r.kind = "none" THEN [out |-> out, finished |-> TRUE]
            ELSE IterCollect(heap, r.it, fuel - 1,
                             IF r.kind = "item" THEN Append(out, r.item) ELSE out)

\* Enough turns for every node and every payload of a well-formed heap
IterFuel(heap) == Len(heap.nodes) + Len(heap.payloads) + 2

(***************************************************************************)
(* State machine of the heap: a heap is built from an input list, then     *)
(* find (and iter) is applied either to the key of an input pair or to a   *)
(* free query string.                                                      *)
(***************************************************************************)
\* All lists of n byte strings whose lengths sum to at most `budget`
RECURSIVE StrLists(_, _)
StrLists(n, budget) ==
    IF n = 0 THEN { << >> }
    ELSE UNION { { << s >> \o rest : rest \in StrLists(n - 1, budget - Len(s)) } :
                 s \in SeqsUpTo(Bytes, budget) }

RECURSIVE SumKeyLen(_, _)
SumKeyLen(strs, n) == IF n = 0 THEN 0 ELSE Len(strs[n].key) + SumKeyLen(strs, n - 1)

\* The input list of AsciiHeap::new, not yet built: pair i carries payload i
HeapInit ==
    /\ \E ks \in UNION { StrLists(n, MaxTotalLen) : n \in 0..MaxPairs } :
          h_strs = [i \in 1..Len(ks) |-> [key |-> ks[i], payload |-> i]]
    /\ h_query = << >>
    /\ h_heap = [payloads |-> << >>, nodes |-> << >>]
    /\ h_pc = "input"
    /\ h_arg = 0
    /\ h_idx = 0
    /\ h_out = [out |-> << >>, finished |-> FALSE]

HeapIdle ==
    /\ h_strs = << >>
    /\ h_query = << >>
    /\ h_heap = [payloads |-> << >>, nodes |-> << >>]
    /\ h_pc = "idle"
    /\ h_arg = 0
    /\ h_idx = 0
    /\ h_out = [out |-> << >>, finished |-> FALSE]

\* The queries tried on a heap: the bytes of the keys and of the query
\* together stay within MaxTotalLen
QueryInputs == SeqsUpTo(Bytes, MaxTotalLen - SumKeyLen(h_strs, Len(h_strs)))

\* AsciiHeap::new(strs)
New ==
    /\ h_pc = "input"
    /\ h_heap' = AsciiHeapNew(h_strs)
    /\ h_pc' = "built"
    /\ UNCHANGED << h_strs, h_query, h_arg, h_idx, h_out >>
    /\ UNCHANGED notHeap

\* heap.iter(heap.find(key)) for the key of input pair i
FindKey(i) ==
    /\ h_pc = "built"
    /\ i \in 1..Len(h_strs)
    /\ LET idx == find(h_heap, h_strs[i].key)
       IN /\ h_idx' = idx
          /\ h_out' = IterCollect(h_heap, iter(idx), IterFuel(h_heap), << >>)
    /\ h_arg' = i
    /\ h_pc' = "found"
    /\ UNCHANGED << h_strs, h_query, h_heap >>
    /\ UNCHANGED notHeap

\* heap.find(q), then heap.iter of the node found, for a query q
FindQuery(q) ==
    /\ h_pc = "built"
    /\ q \in QueryInputs
    /\ LET idx == find(h_heap, q)
       IN /\ h_idx' = idx
          /\ h_out' = IterCollect(h_heap, iter(idx), IterFuel(h_heap), << >>)
    /\ h_query' = q
    /\ h_arg' = 0
    /\ h_pc' = "queried"
    /\ UNCHANGED << h_strs, h_heap >>
    /\ UNCHANGED notHeap

\* heap.iter(idx) for a node index idx of the heap, run until it ends
IterAt(idx) ==
    /\ h_pc = "built"
    /\ idx < Len(h_heap.nodes)
    /\ h_idx' = idx
    /\ h_out' = IterCollect(h_heap, iter(idx), IterFuel(h_heap), << >>)
    /\ h_arg' = 0
    /\ h_pc' = "iterated"
    /\ UNCHANGED << h_strs, h_query, h_heap >>
    /\ UNCHANGED notHeap

HeapNext ==
    \/ New
    \/ \E i \in 1..MaxPairs : FindKey(i)
    \/ \E q \in QueryInputs : FindQuery(q)
    \/ \E idx \in 0..MaxTotalLen : IterAt(idx)


(***************************************************************************)
(* ===============  AnilistClient (anilist_client.rs)  ==================  *)
(*                                                                         *)
(* Time is counted in whole seconds and kept relative to the present: an   *)
(* Instant is held as its age (now - instant) and a running timer as the   *)
(* seconds left to its deadline (negative once overdue).  Ages and overdue *)
(* times stop counting at a cap beyond which no comparison of the code     *)
(* depends on them, so the clock itself is unbounded.                      *)
(* A tokio timer (delay_until, delay_for) completes at or after its        *)
(* deadline: the step that follows a sleep is enabled once the timer has   *)
(* run out and is taken at that moment or later.  Code between two await   *)
(* points runs within one step.                                            *)
(***************************************************************************)

\* Bound of the client model: concurrent callers of request
NumCallers == 2

\* StdDuration::from_secs(1): the gap request() asks of the sleeper
GapSecs == 1

\* retry_after = Some(num + 10)
RetryAfterSlack == 10

\* MINUTE, the delay after an error unrelated to rate limiting
MinuteSecs == 60

\* Values N of a parsable `Retry-After: N` header
RetryAfterValues == {0, 2}

Callers == 1..NumCallers

\* What one attempt (request_) can end in
Outcomes ==
    { [kind |-> "ok", n |-> 0] }
      \cup { [kind |-> "retry_after", n |-> n] : n \in RetryAfterValues }
      \cup { [kind |-> k, n |-> 0] :
                k \in {"retry_after_invalid", "transport", "non_json", "data_null"} }

\* Ages stop counting here: Sleeper::sleep compares the age with the gap, and
\* a gap timer that is overdue by a full gap or more behaves alike
AgeCap == 2 * GapSecs

\* The time since a failure stops counting at the longest delay
SleptCap == MinuteSecs + RetryAfterSlack

NoErr == [kind |-> "ok", n |-> 0]

\* AnilistClient::new: Sleeper::new() holds Instant::now(), retry_after: None
ClientInit ==
    /\ c_lock = 0
    /\ c_sleeperAge = 0
    /\ c_retry_after = None
    /\ c_pc = [c \in Callers |-> "idle"]
    /\ c_timer = [c \in Callers |-> 0]
    /\ c_err = [c \in Callers |-> NoErr]
    /\ c_sinceFail = [c \in Callers |-> 0]
    /\ c_isRetry = [c \in Callers |-> FALSE]
    /\ c_retrySlept = [c \in Callers |-> 0]
    /\ c_sinceStart = -1
    /\ c_sinceDue = -1
    /\ c_startGap = -1
    /\ c_dueGap = -1
    /\ c_markLag = 0

ClientIdle ==
    /\ c_lock = 0
    /\ c_sleeperAge = 0
    /\ c_retry_after = None
    /\ c_pc = << >>
    /\ c_timer = << >>
    /\ c_err = << >>
    /\ c_sinceFail = << >>
    /\ c_isRetry = << >>
    /\ c_retrySlept = << >>
    /\ c_sinceStart = -1
    /\ c_sinceDue = -1
    /\ c_startGap = -1
    /\ c_dueGap = -1
    /\ c_markLag = 0

\* self.request_(..): the attempt of caller c is sent now.  markAge is the age
\* of the Instant the sleeper holds at that moment, dueAge the time since the
\* attempt was due.
StartAttempt(c, markAge, dueAge, retry) ==
    /\ c_sleeperAge' = markAge
    /\ c_pc' = [c_pc EXCEPT ![c] = "inflight"]
    /\ c_isRetry' = [c_isRetry EXCEPT ![c] = retry]
    /\ c_retrySlept' = [c_retrySlept EXCEPT ![c] = IF retry THEN c_sinceFail[c] ELSE 0]
    /\ c_startGap' = c_sinceStart
    /\ c_dueGap' = c_sinceDue
    /\ c_sinceStart' = 0
    /\ c_sinceDue' = dueAge
    /\ c_markLag' = markAge

\* A task calls request(): it queues for self.inner.lock()
Call(c) ==
    /\ c_pc[c] = "idle"
    /\ c_pc' = [c_pc EXCEPT ![c] = "lock"]
    /\ UNCHANGED << c_lock, c_sleeperAge, c_retry_after, c_timer, c_err, c_sinceFail,
                    c_isRetry, c_retrySlept, c_sinceStart, c_sinceDue, c_startGap,
                    c_dueGap, c_markLag >>
    /\ UNCHANGED notClient

\* Mutant of LockFree: request() does not wait for the guard of another caller
LockFree_not_awaited == TRUE

\* tokio Mutex: lock() returns only while no guard is alive
LockFree == c_lock = 0

\* Sleeper::sleep: `end = self.0 + duration`, as the seconds from now to end
SleepRemaining(duration) == duration - c_sleeperAge

\* Mutant of SleeperAfterWait: the Instant is not moved after the wait
SleeperAfterWait_stale(duration) == c_sleeperAge

\* Sleeper::sleep after delay_until(end): `self.0 = end`; the Instant was
\* `duration` younger than the old one
SleeperAfterWait(duration) == c_sleeperAge - duration

\* Sleeper::sleep without waiting (`self.0 = now`) and Sleeper::set_now
SleeperNow == 0

\* inner.lock().await returns, then inner.sleeper.sleep(1 s) starts; when the
\* gap has already passed (!(now < end)) the first attempt is sent in the
\* same step
Acquire(c) ==
    /\ c_pc[c] = "lock"
    /\ LockFree
    /\ c_lock' = c
    /\ IF SleepRemaining(GapSecs) > 0
       THEN /\ c_pc' = [c_pc EXCEPT ![c] = "gap"]
            /\ c_timer' = [c_timer EXCEPT ![c] = SleepRemaining(GapSecs)]
            /\ UNCHANGED << c_sleeperAge, c_isRetry, c_retrySlept, c_sinceStart,
                            c_sinceDue, c_startGap, c_dueGap, c_markLag >>
       ELSE /\ StartAttempt(c, SleeperNow, 0, FALSE)
            /\ UNCHANGED c_timer
    /\ UNCHANGED << c_retry_after, c_err, c_sinceFail >>
    /\ UNCHANGED notClient

\* delay_until(end) completes: self.0 = end, and the first attempt is sent
GapWake(c) ==
    /\ c_pc[c] = "gap"
    /\ c_timer[c] <= 0
    /\ StartAttempt(c, SleeperAfterWait(GapSecs), -c_timer[c], FALSE)
    /\ c_timer' = [c_timer EXCEPT ![c] = 0]
    /\ UNCHANGED << c_lock, c_retry_after, c_err, c_sinceFail >>
    /\ UNCHANGED notClient

\* The delay request() picks after a failed attempt:
\* inner.retry_after.take() or MINUTE
BackoffDelay(retry_after) ==
    IF retry_after # None THEN retry_after[1] ELSE MinuteSecs

\* Mutant of RetryAfterOf: the 10 seconds of slack are not added
RetryAfterOf_no_slack(o) ==
    IF o.kind = "retry_after" THEN Some(o.n) ELSE c_retry_after

\* request_ sets inner.retry_after for a parsable Retry-After header only
RetryAfterOf(o) ==
    IF o.kind = "retry_after" THEN Some(o.n + RetryAfterSlack) ELSE c_retry_after

\* Mutant of KeepsLock: the guard is dropped when an attempt ends
KeepsLock_dropped_on_error(o) == FALSE

\* Whether request() keeps the guard after an attempt that ended in o
KeepsLock(o) == o.kind # "ok"

\* The attempt of caller c ends.  Ok: request returns and the guard drops.
\* Err: the delay is chosen and delay_for(delay) starts.
Respond(c, o) ==
    /\ c_pc[c] = "inflight"
    /\ c_lock' = IF KeepsLock(o) THEN c_lock ELSE 0
    /\ IF o.kind = "ok"
       THEN /\ c_pc' = [c_pc EXCEPT ![c] = "idle"]
            /\ c_err' = [c_err EXCEPT ![c] = NoErr]
            /\ c_sinceFail' = [c_sinceFail EXCEPT ![c] = 0]
            /\ c_isRetry' = [c_isRetry EXCEPT ![c] = FALSE]
            /\ c_retrySlept' = [c_retrySlept EXCEPT ![c] = 0]
            /\ UNCHANGED << c_retry_after, c_timer >>
       ELSE /\ c_pc' = [c_pc EXCEPT ![c] = "backoff"]
            /\ c_timer' = [c_timer EXCEPT ![c] = BackoffDelay(RetryAfterOf(o))]
            /\ c_retry_after' = None
            /\ c_err' = [c_err EXCEPT ![c] = o]
            /\ c_sinceFail' = [c_sinceFail EXCEPT ![c] = 0]
            /\ UNCHANGED << c_isRetry, c_retrySlept >>
    /\ UNCHANGED << c_sleeperAge, c_sinceStart, c_sinceDue, c_startGap, c_dueGap,
                    c_markLag >>
    /\ UNCHANGED notClient

\* delay_for(delay) completes: inner.sleeper.set_now(), and the loop sends
\* the next attempt
BackoffWake(c) ==
    /\ c_pc[c] = "backoff"
    /\ c_timer[c] <= 0
    /\ StartAttempt(c, SleeperNow, 0, TRUE)
    /\ c_timer' = [c_timer EXCEPT ![c] = 0]
    /\ UNCHANGED << c_lock, c_retry_after, c_err, c_sinceFail >>
    /\ UNCHANGED notClient

CountUp(x, cap) == IF x = -1 THEN -1 ELSE IF x < cap THEN x + 1 ELSE cap

\* One second passes: running timers count down, ages count up
ClientTick ==
    /\ c_timer' = [c \in Callers |->
                      IF c_pc[c] \in {"gap", "backoff"} /\ c_timer[c] > -GapSecs
                      THEN c_timer[c] - 1 ELSE c_timer[c]]
    /\ c_sleeperAge' = CountUp(c_sleeperAge, AgeCap)
    /\ c_sinceFail' = [c \in Callers |->
                         IF c_pc[c] = "backoff" THEN CountUp(c_sinceFail[c], SleptCap)
                         ELSE c_sinceFail[c]]
    /\ c_sinceStart' = CountUp(c_sinceStart, GapSecs)
    /\ c_sinceDue' = CountUp(c_sinceDue, AgeCap)
    /\ UNCHANGED << c_lock, c_retry_after, c_pc, c_err, c_isRetry, c_retrySlept,
                    c_startGap, c_dueGap, c_markLag >>
    /\ UNCHANGED notClient

ClientNext ==
    \/ \E c \in Callers : Call(c)
    \/ \E c \in Callers : Acquire(c)
    \/ \E c \in Callers : GapWake(c)
    \/ \E c \in Callers : \E o \in Outcomes : Respond(c, o)
    \/ \E c \in Callers : BackoffWake(c)
    \/ ClientTick

(***************************************************************************)
(* ==========  Scheduled (scheduled.rs) in the loop of load_shows  ========  *)
(*                                                                         *)
(* Time is counted in whole minutes and kept relative to the present, as   *)
(* in the client model.  The row magnets.state[key] can be written by      *)
(* anyone with access to the database, and the key's Notify can be fired   *)
(* at any moment (DbWatcher::handle_str on a state_change notification,    *)
(* DbWatcher::notify_all after a reconnect).  PgHolder::borrow and the     *)
(* queries either succeed or fail.                                         *)
(***************************************************************************)

\* Bound of the scheduler model: Scheduled::period in minutes
\* (config.anilist.shows_poll_interval)
SchedPeriod == 2

\* 5 * MINUTE, in minutes
FiveMinutes == 5

SchedAgeCap == SchedPeriod

SchedSleptCap == IF SchedPeriod > FiveMinutes THEN SchedPeriod ELSE FiveMinutes

SchedAges == 0..SchedAgeCap

\* The loop of load_shows is entered; state[key] holds some timestamp
SchedInit ==
    /\ s_pc = "read"
    /\ s_lastAge \in SchedAges
    /\ s_readAge = 0
    /\ s_notified = FALSE
    /\ s_timer = 0
    /\ s_nowAge = 0
    /\ s_wake = "none"
    /\ s_wakeAge = -1
    /\ s_reread = FALSE
    /\ s_work = "none"
    /\ s_upd = "none"
    /\ s_wroteSince = FALSE
    /\ s_sinceUpd = 0
    /\ s_writeDiff = 0
    /\ s_slept = 0

SchedIdle ==
    /\ s_pc = "off"
    /\ s_lastAge = 0
    /\ s_readAge = 0
    /\ s_notified = FALSE
    /\ s_timer = 0
    /\ s_nowAge = 0
    /\ s_wake = "none"
    /\ s_wakeAge = -1
    /\ s_reread = FALSE
    /\ s_work = "none"
    /\ s_upd = "none"
    /\ s_wroteSince = FALSE
    /\ s_sinceUpd = 0
    /\ s_writeDiff = 0
    /\ s_slept = 0

schedGhosts == << s_wake, s_wakeAge, s_reread, s_work, s_upd, s_wroteSince,
                  s_sinceUpd, s_writeDiff, s_slept >>

\* wait_: borrow a connection and read state[key]; then `notified` and
\* `sleep_until(last + period)` are created and select polls them.  A failed
\* borrow or query ends wait_ with Err: wait() sleeps 5 minutes.
ReadLast(ok) ==
    /\ s_pc = "read"
    /\ IF ok
       THEN /\ s_pc' = "select"
            /\ s_readAge' = s_lastAge
            /\ UNCHANGED s_timer
       ELSE /\ s_pc' = "waitErr"
            /\ s_timer' = FiveMinutes
            /\ UNCHANGED s_readAge
    /\ UNCHANGED << s_lastAge, s_notified, s_nowAge >>
    /\ UNCHANGED schedGhosts
    /\ UNCHANGED notSched

\* wait(): delay_for(5 * MINUTE) completes, wait_ is called again
WaitErrWake ==
    /\ s_pc = "waitErr"
    /\ s_timer <= 0
    /\ s_pc' = "read"
    /\ UNCHANGED << s_lastAge, s_readAge, s_notified, s_timer, s_nowAge >>
    /\ UNCHANGED schedGhosts
    /\ UNCHANGED notSched

\* Mutant of SleepOver: the sleep is over at once
SleepOver_at_once == TRUE

\* sleep_until(last + period): over once the clock has reached last + period
\* (at once when it had been reached before the call)
SleepOver == s_readAge >= SchedPeriod

\* Mutant of AfterSelect: a notification ends the wait like the sleep does
AfterSelect_notifier_ends_wait(cause) == "work"

\* wait_ after select: Either::Right (the sleep) breaks out of the loop and
\* wait returns, so that the loop of load_shows runs the work function;
\* Either::Left (the notification) goes round the loop of wait_
AfterSelect(cause) == IF cause = "sleep" THEN "work" ELSE "read"

\* select finds `notified` ready; it polls `notified` before `sleep`
SelectNotified ==
    /\ s_pc = "select"
    /\ s_notified
    /\ s_notified' = FALSE
    /\ s_pc' = AfterSelect("notifier")
    /\ s_wake' = "notifier"
    /\ s_reread' = TRUE
    /\ UNCHANGED << s_lastAge, s_readAge, s_timer, s_nowAge >>
    /\ UNCHANGED << s_wakeAge, s_work, s_upd, s_wroteSince, s_sinceUpd,
                    s_writeDiff, s_slept >>
    /\ UNCHANGED notSched

\* select finds `notified` pending and `sleep` ready
SelectSleep ==
    /\ s_pc = "select"
    /\ ~s_notified
    /\ SleepOver
    /\ s_pc' = AfterSelect("sleep")
    /\ s_wake' = "sleep"
    /\ s_wakeAge' = s_readAge
    /\ s_work' = "none"
    /\ s_upd' = "none"
    /\ s_wroteSince' = FALSE
    /\ UNCHANGED << s_lastAge, s_readAge, s_notified, s_timer, s_nowAge >>
    /\ UNCHANGED << s_reread, s_sinceUpd, s_writeDiff, s_slept >>
    /\ UNCHANGED notSched

\* load_shows_now returns.  Ok: update() is called and update_ takes `now`.
\* Err: delay_for(5 * MINUTE).
Work(ok) ==
    /\ s_pc = "work"
    /\ IF ok
       THEN /\ s_pc' = "update"
            /\ s_work' = "ok"
            /\ s_nowAge' = 0
            /\ s_sinceUpd' = 0
            /\ UNCHANGED << s_timer, s_slept >>
       ELSE /\ s_pc' = "workErr"
            /\ s_work' = "err"
            /\ s_timer' = FiveMinutes
            /\ s_slept' = 0
            /\ UNCHANGED << s_nowAge, s_sinceUpd >>
    /\ UNCHANGED << s_lastAge, s_readAge, s_notified >>
    /\ UNCHANGED << s_wake, s_wakeAge, s_reread, s_upd, s_wroteSince, s_writeDiff >>
    /\ UNCHANGED notSched

\* The 5 minutes after a failed work function are over: back to wait()
WorkErrWake ==
    /\ s_pc = "workErr"
    /\ s_timer <= 0
    /\ s_pc' = "read"
    /\ s_reread' = FALSE
    /\ UNCHANGED << s_lastAge, s_readAge, s_notified, s_timer, s_nowAge >>
    /\ UNCHANGED << s_wake, s_wakeAge, s_work, s_upd, s_wroteSince, s_sinceUpd,
                    s_writeDiff, s_slept >>
    /\ UNCHANGED notSched

\* Mutant of WrittenAge: the update leaves the old timestamp in the row
WrittenAge_stale == s_lastAge

\* update_: `set value = $1` with Json(now), the instant taken on entry
WrittenAge == s_nowAge

\* update_ borrows a connection and executes the update.  Ok: the row is
\* written and update returns.  Err (borrow or execute): nothing is written
\* and update() sleeps for the period.
Update(ok) ==
    /\ s_pc = "update"
    /\ IF ok
       THEN /\ s_pc' = "refresh"
            /\ s_lastAge' = WrittenAge
            /\ s_upd' = "written"
            /\ s_wroteSince' = TRUE
            /\ s_writeDiff' = WrittenAge - s_sinceUpd
            /\ UNCHANGED << s_timer, s_slept >>
       ELSE /\ s_pc' = "updateErr"
            /\ s_upd' = "failed"
            /\ s_timer' = SchedPeriod
            /\ s_slept' = 0
            /\ UNCHANGED << s_lastAge, s_wroteSince, s_writeDiff >>
    /\ UNCHANGED << s_readAge, s_notified, s_nowAge >>
    /\ UNCHANGED << s_wake, s_wakeAge, s_reread, s_work, s_sinceUpd >>
    /\ UNCHANGED notSched

\* update(): delay_for(self.period) completes, update returns
UpdateErrWake ==
    /\ s_pc = "updateErr"
    /\ s_timer <= 0
    /\ s_pc' = "refresh"
    /\ UNCHANGED << s_lastAge, s_readAge, s_notified, s_timer, s_nowAge >>
    /\ UNCHANGED schedGhosts
    /\ UNCHANGED notSched

\* state.show_db.refresh() returns (an error is logged only): back to wait()
Refresh(ok) ==
    /\ s_pc = "refresh"
    /\ s_pc' = "read"
    /\ s_reread' = FALSE
    /\ UNCHANGED << s_lastAge, s_readAge, s_notified, s_timer, s_nowAge >>
    /\ UNCHANGED << s_wake, s_wakeAge, s_work, s_upd, s_wroteSince, s_sinceUpd,
                    s_writeDiff, s_slept >>
    /\ UNCHANGED notSched

\* Somebody else sets state[key] to a timestamp of age a
ExtWrite(a) ==
    /\ s_lastAge' = a
    /\ UNCHANGED << s_pc, s_readAge, s_notified, s_timer, s_nowAge >>
    /\ UNCHANGED schedGhosts
    /\ UNCHANGED notSched

\* DbWatcher: n.notify() on the key's Notify (handle_str, notify_all)
NotifyKey ==
    /\ s_notified' = TRUE
    /\ UNCHANGED << s_pc, s_lastAge, s_readAge, s_timer, s_nowAge >>
    /\ UNCHANGED schedGhosts
    /\ UNCHANGED notSched

SchedCountUp(x, cap) == IF x < cap THEN x + 1 ELSE cap

\* One minute passes
SchedTick ==
    /\ s_lastAge' = SchedCountUp(s_lastAge, SchedAgeCap)
    /\ s_readAge' = SchedCountUp(s_readAge, SchedAgeCap)
    /\ s_timer' = IF s_pc \in {"waitErr", "workErr", "updateErr"} /\ s_timer > 0
                  THEN s_timer - 1 ELSE s_timer
    /\ s_nowAge' = IF s_pc = "update" THEN SchedCountUp(s_nowAge, SchedAgeCap)
                   ELSE s_nowAge
    /\ s_sinceUpd' = IF s_pc = "update" THEN SchedCountUp(s_sinceUpd, SchedAgeCap)
                     ELSE s_sinceUpd
    /\ s_slept' = IF s_pc \in {"workErr", "updateErr"}
                  THEN SchedCountUp(s_slept, SchedSleptCap) ELSE s_slept
    /\ UNCHANGED << s_pc, s_notified, s_wake, s_wakeAge, s_reread, s_work, s_upd,
                    s_wroteSince, s_writeDiff >>
    /\ UNCHANGED notSched

SchedNext ==
    \/ \E ok \in BOOLEAN : ReadLast(ok)
    \/ WaitErrWake
    \/ SelectNotified
    \/ SelectSleep
    \/ \E ok \in BOOLEAN : Work(ok)
    \/ WorkErrWake
    \/ \E ok \in BOOLEAN : Update(ok)
    \/ UpdateErrWake
    \/ \E ok \in BOOLEAN : Refresh(ok)
    \/ \E a \in SchedAges : ExtWrite(a)
    \/ NotifyKey
    \/ SchedTick

(***************************************************************************)
(* ====================  ShowDbHolder (show_db.rs)  =====================  *)
(*                                                                         *)
(* The tables a load reads are held as one version number that every       *)
(* committed change of the shows increases; what a query returns is the    *)
(* version it saw.  A ShowDb records, for its shows and for its names, the *)
(* version read and the load_db call that read it.                         *)
(***************************************************************************)

\* Bounds of the holder model
NumTasks == 2

MaxLoads == 2

MaxDbWrites == 1

Tasks == 1..NumTasks

NoLoad == [id |-> 0, pin |-> -1, shows |-> -1, names |-> -1]

NoShowDb == [shows |-> -1, names |-> -1, showsLoad |-> 0, namesLoad |-> 0]

\* ShowDbHolder::new: show_db is None
ShowDbInit ==
    /\ d_db = 0
    /\ d_objs = << >>
    /\ d_show_db = 0
    /\ d_lock = 0
    /\ d_pc = [t \in Tasks |-> "idle"]
    /\ d_load = [t \in Tasks |-> NoLoad]
    /\ d_new = [t \in Tasks |-> 0]
    /\ d_held = [t \in Tasks |-> 0]
    /\ d_seen = [t \in Tasks |-> NoShowDb]
    /\ d_loads = 0
    /\ d_published = {}
    /\ d_failed = [t \in Tasks |-> "none"]

ShowDbIdle ==
    /\ d_db = 0
    /\ d_objs = << >>
    /\ d_show_db = 0
    /\ d_lock = 0
    /\ d_pc = << >>
    /\ d_load = << >>
    /\ d_new = << >>
    /\ d_held = << >>
    /\ d_seen = << >>
    /\ d_loads = 0
    /\ d_published = {}
    /\ d_failed = << >>

\* load_db is entered: connect, then a repeatable read transaction
BeginLoad(t) ==
    /\ d_loads < MaxLoads
    /\ d_loads' = d_loads + 1
    /\ d_load' = [d_load EXCEPT ![t] = [NoLoad EXCEPT !.id = d_loads + 1]]

\* A task calls get(): it queues for self.show_db.lock()
GetCall(t) ==
    /\ d_pc[t] = "idle"
    /\ d_pc' = [d_pc EXCEPT ![t] = "get_lock"]
    /\ UNCHANGED << d_db, d_objs, d_show_db, d_lock, d_load, d_new, d_held, d_seen,
                    d_loads, d_published >>
    /\ d_failed' = [d_failed EXCEPT ![t] = "none"]
    /\ UNCHANGED notShowDb

\* get() obtains the lock.  Some(db): it returns a clone of the Arc and the
\* guard drops.  None: load_db starts while the guard is held.
GetLock(t) ==
    /\ d_pc[t] = "get_lock"
    /\ d_lock = 0
    /\ IF d_show_db # 0
       THEN /\ d_held' = [d_held EXCEPT ![t] = d_show_db]
            /\ d_seen' = [d_seen EXCEPT ![t] = d_objs[d_show_db]]
            /\ d_pc' = [d_pc EXCEPT ![t] = "idle"]
            /\ UNCHANGED << d_lock, d_load, d_loads >>
       ELSE /\ BeginLoad(t)
            /\ d_lock' = t
            /\ d_pc' = [d_pc EXCEPT ![t] = "get_load"]
            /\ UNCHANGED << d_held, d_seen >>
    /\ UNCHANGED << d_db, d_objs, d_show_db, d_new, d_published >>
    /\ UNCHANGED d_failed
    /\ UNCHANGED notShowDb

\* A task calls refresh(): load_db starts, the lock is not taken yet
RefreshCall(t) ==
    /\ d_pc[t] = "idle"
    /\ BeginLoad(t)
    /\ d_pc' = [d_pc EXCEPT ![t] = "refresh_load"]
    /\ UNCHANGED << d_db, d_objs, d_show_db, d_lock, d_new, d_held, d_seen,
                    d_published >>
    /\ d_failed' = [d_failed EXCEPT ![t] = "none"]
    /\ UNCHANGED notShowDb

\* What a query of the repeatable read transaction sees: the snapshot the
\* first query of the transaction took
TranRead(load) == IF load.pin = -1 THEN d_db ELSE load.pin

\* load_shows(&tran) or load_names(&tran) of the join! reads its table
LoadRead(t, part) ==
    /\ d_pc[t] \in {"get_load", "refresh_load"}
    /\ IF part = "shows" THEN d_load[t].shows = -1 ELSE d_load[t].names = -1
    /\ d_load' = [d_load EXCEPT ![t] =
                    IF part = "shows"
                    THEN [@ EXCEPT !.pin = TranRead(d_load[t]),
                                   !.shows = TranRead(d_load[t])]
                    ELSE [@ EXCEPT !.pin = TranRead(d_load[t]),
                                   !.names = TranRead(d_load[t])]]
    /\ UNCHANGED << d_db, d_objs, d_show_db, d_lock, d_pc, d_new, d_held, d_seen,
                    d_loads, d_published >>
    /\ UNCHANGED d_failed
    /\ UNCHANGED notShowDb

\* Mutant of LoadFail: the error of load_db empties the holder
LoadFail_clears_holder(t) ==
    /\ d_pc[t] \in {"get_load", "refresh_load"}
    /\ d_pc' = [d_pc EXCEPT ![t] = "idle"]
    /\ d_load' = [d_load EXCEPT ![t] = NoLoad]
    /\ d_lock' = IF d_pc[t] = "get_load" THEN 0 ELSE d_lock
    /\ d_show_db' = 0
    /\ UNCHANGED << d_db, d_objs, d_new, d_held, d_seen, d_loads, d_published >>
    /\ d_failed' = [d_failed EXCEPT ![t] = IF d_pc[t] = "get_load" THEN "get" ELSE "refresh"]
    /\ UNCHANGED notShowDb

\* load_db returns Err (connect, transaction or a query failed): get and
\* refresh return the error; the guard of get drops
LoadFail(t) ==
    /\ d_pc[t] \in {"get_load", "refresh_load"}
    /\ d_pc' = [d_pc EXCEPT ![t] = "idle"]
    /\ d_load' = [d_load EXCEPT ![t] = NoLoad]
    /\ d_lock' = IF d_pc[t] = "get_load" THEN 0 ELSE d_lock
    /\ UNCHANGED << d_db, d_objs, d_show_db, d_new, d_held, d_seen, d_loads,
                    d_published >>
    /\ d_failed' = [d_failed EXCEPT ![t] = IF d_pc[t] = "get_load" THEN "get" ELSE "refresh"]
    /\ UNCHANGED notShowDb

\* build_db(shows?, names?): the ShowDb made of what the load read
BuiltDb(load) ==
    [shows |-> load.shows, names |-> load.names,
     showsLoad |-> load.id, namesLoad |-> load.id]

\* Mutant of AllocArc: the new ShowDb is written over the one published
AllocArc_in_place == IF d_show_db # 0 THEN d_show_db ELSE Len(d_objs) + 1

\* Arc::new: the value is placed in a fresh allocation
AllocArc == Len(d_objs) + 1

StoreArc(addr, db) ==
    IF addr = Len(d_objs) + 1 THEN Append(d_objs, db)
    ELSE [d_objs EXCEPT ![addr] = db]

\* load_db returns Ok.  get: `*show_db = Some(Arc::new(..))`, a clone is
\* returned and the guard drops.  refresh: `new = Arc::new(..)`, then it
\* queues for the lock.
LoadDone(t) ==
    /\ d_pc[t] \in {"get_load", "refresh_load"}
    /\ d_load[t].shows # -1
    /\ d_load[t].names # -1
    /\ d_objs' = StoreArc(AllocArc, BuiltDb(d_load[t]))
    /\ d_load' = [d_load EXCEPT ![t] = NoLoad]
    /\ IF d_pc[t] = "get_load"
       THEN /\ d_show_db' = AllocArc
            /\ d_published' = d_published \cup {AllocArc}
            /\ d_held' = [d_held EXCEPT ![t] = AllocArc]
            /\ d_seen' = [d_seen EXCEPT ![t] = BuiltDb(d_load[t])]
            /\ d_lock' = 0
            /\ d_pc' = [d_pc EXCEPT ![t] = "idle"]
            /\ UNCHANGED d_new
       ELSE /\ d_new' = [d_new EXCEPT ![t] = AllocArc]
            /\ d_pc' = [d_pc EXCEPT ![t] = "refresh_lock"]
            /\ UNCHANGED << d_show_db, d_published, d_held, d_seen, d_lock >>
    /\ UNCHANGED << d_db, d_loads >>
    /\ UNCHANGED d_failed
    /\ UNCHANGED notShowDb

\* refresh: `*self.show_db.lock().await = Some(new)`
RefreshStore(t) ==
    /\ d_pc[t] = "refresh_lock"
    /\ d_lock = 0
    /\ d_show_db' = d_new[t]
    /\ d_published' = d_published \cup {d_new[t]}
    /\ d_new' = [d_new EXCEPT ![t] = 0]
    /\ d_pc' = [d_pc EXCEPT ![t] = "idle"]
    /\ UNCHANGED << d_db, d_objs, d_lock, d_load, d_held, d_seen, d_loads >>
    /\ UNCHANGED d_failed
    /\ UNCHANGED notShowDb

\* A task drops the Arc it got
DropDb(t) ==
    /\ d_pc[t] = "idle"
    /\ d_held[t] # 0
    /\ d_held' = [d_held EXCEPT ![t] = 0]
    /\ d_seen' = [d_seen EXCEPT ![t] = NoShowDb]
    /\ UNCHANGED << d_db, d_objs, d_show_db, d_lock, d_pc, d_load, d_new, d_loads,
                    d_published >>
    /\ UNCHANGED d_failed
    /\ UNCHANGED notShowDb

\* Somebody commits a change of the shows (load_shows_now does)
DbWrite ==
    /\ d_db < MaxDbWrites
    /\ d_db' = d_db + 1
    /\ UNCHANGED << d_objs, d_show_db, d_lock, d_pc, d_load, d_new, d_held, d_seen,
                    d_loads, d_published >>
    /\ UNCHANGED d_failed
    /\ UNCHANGED notShowDb

ShowDbNext ==
    \/ \E t \in Tasks : GetCall(t)
    \/ \E t \in Tasks : GetLock(t)
    \/ \E t \in Tasks : RefreshCall(t)
    \/ \E t \in Tasks : \E part \in {"shows", "names"} : LoadRead(t, part)
    \/ \E t \in Tasks : LoadFail(t)
    \/ \E t \in Tasks : LoadDone(t)
    \/ \E t \in Tasks : RefreshStore(t)
    \/ \E t \in Tasks : DropDb(t)
    \/ DbWrite

(***************************************************************************)
(* ======================  PgHolder (common/pg.rs)  =====================  *)
(*                                                                         *)
(* The persistent holder of the processor: borrowers call borrow, and the  *)
(* task keep_connected reconnects when the connection it watches ends.     *)
(* A connection is alive until it fails and stays failed from then on;     *)
(* simple_query("") on it succeeds exactly while it is alive.              *)
(***************************************************************************)

\* Bounds of the holder model
NumBorrowers == 2

MaxCons == 2

Borrowers == 1..NumBorrowers

Keeper == -1

\* PgHolder::with_message_handler: version 0, pg None, join_handle None;
\* keep_connected is spawned
PgInit ==
    /\ p_cons = << >>
    /\ p_version = 0
    /\ p_pg = 0
    /\ p_join = 0
    /\ p_lock = 0
    /\ p_pc = [t \in Borrowers |-> "idle"]
    /\ p_ver = [t \in Borrowers |-> 0]
    /\ p_con = [t \in Borrowers |-> 0]
    /\ p_handle = [t \in Borrowers |-> 0]
    /\ k_pc = "take"
    /\ k_ver = 0
    /\ k_jh = 0
    /\ p_failSeen = 0
    /\ p_known = [t \in Borrowers |-> 0]
    /\ p_retAlive = [t \in Borrowers |-> FALSE]

PgIdle ==
    /\ p_cons = << >>
    /\ p_version = 0
    /\ p_pg = 0
    /\ p_join = 0
    /\ p_lock = 0
    /\ p_pc = << >>
    /\ p_ver = << >>
    /\ p_con = << >>
    /\ p_handle = << >>
    /\ k_pc = "off"
    /\ k_ver = 0
    /\ k_jh = 0
    /\ p_failSeen = 0
    /\ p_known = << >>
    /\ p_retAlive = << >>

pgHolderCon == << p_cons, p_version, p_pg, p_join >>

pgKeeper == << k_pc, k_ver, k_jh >>

pgGhosts == << p_failSeen, p_known, p_retAlive >>

\* A task that holds no handle calls borrow()
BorrowCall(t) ==
    /\ p_pc[t] = "idle"
    /\ p_handle[t] = 0
    /\ p_pc' = [p_pc EXCEPT ![t] = "read"]
    /\ p_known' = [p_known EXCEPT ![t] = p_failSeen]
    /\ UNCHANGED << p_lock, p_ver, p_con, p_handle, p_failSeen, p_retAlive >>
    /\ UNCHANGED << pgHolderCon, pgKeeper >>
    /\ UNCHANGED notPg

\* borrow: `(locked.version, locked.pg.clone())` under the lock; with None
\* it goes on to connect(ver), else to the probe
BorrowRead(t) ==
    /\ p_pc[t] = "read"
    /\ p_lock = 0
    /\ p_ver' = [p_ver EXCEPT ![t] = p_version]
    /\ p_con' = [p_con EXCEPT ![t] = p_pg]
    /\ p_pc' = [p_pc EXCEPT ![t] = IF p_pg = 0 THEN "connect" ELSE "probe"]
    /\ UNCHANGED << p_lock, p_handle >>
    /\ UNCHANGED << pgHolderCon, pgKeeper, pgGhosts >>
    /\ UNCHANGED notPg

\* Mutant of ProbeOk: borrow hands out the connection without probing it
ProbeOk_unchecked(con) == TRUE

\* con.simple_query("").await.is_ok()
ProbeOk(con) == p_cons[con]

\* borrow: the probe returns.  Ok: `return Ok(con)`.  Err: connect(ver).
Probe(t) ==
    /\ p_pc[t] = "probe"
    /\ IF ProbeOk(p_con[t])
       THEN /\ p_pc' = [p_pc EXCEPT ![t] = "idle"]
            /\ p_handle' = [p_handle EXCEPT ![t] = p_con[t]]
            /\ p_retAlive' = [p_retAlive EXCEPT ![t] = p_cons[p_con[t]]]
            /\ p_ver' = [p_ver EXCEPT ![t] = 0]
            /\ p_con' = [p_con EXCEPT ![t] = 0]
            /\ UNCHANGED p_failSeen
       ELSE /\ p_pc' = [p_pc EXCEPT ![t] = "connect"]
            /\ p_failSeen' = IF p_con[t] > p_failSeen THEN p_con[t] ELSE p_failSeen
            /\ UNCHANGED << p_handle, p_retAlive, p_ver, p_con >>
    /\ UNCHANGED << p_lock, p_known >>
    /\ UNCHANGED << pgHolderCon, pgKeeper >>
    /\ UNCHANGED notPg

\* Mutant of ConnectNeeded: connect does not compare the versions
ConnectNeeded_unchecked(ver) == TRUE

\* connect: `if ver == locked.version`
ConnectNeeded(ver) == ver = p_version

\* connect(ver) obtains the lock.  When the version moved on it returns
\* Ok(()) and borrow goes round its loop; else client(..) is awaited with
\* the lock held.
ConnectLock(t) ==
    /\ p_pc[t] = "connect"
    /\ p_lock = 0
    /\ IF ConnectNeeded(p_ver[t])
       THEN /\ p_lock' = t
            /\ p_pc' = [p_pc EXCEPT ![t] = "create"]
       ELSE /\ p_pc' = [p_pc EXCEPT ![t] = "read"]
            /\ UNCHANGED p_lock
    /\ UNCHANGED << p_ver, p_con, p_handle >>
    /\ UNCHANGED << pgHolderCon, pgKeeper, pgGhosts >>
    /\ UNCHANGED notPg

\* connect after client(..) returned Ok: version = ver + 1, pg = Some(new),
\* join_handle = Some(..) (the holder is persistent); the guard drops
StoreCon(ver) ==
    /\ Len(p_cons) < MaxCons
    /\ p_cons' = Append(p_cons, TRUE)
    /\ p_version' = ver + 1
    /\ p_pg' = Len(p_cons) + 1
    /\ p_join' = Len(p_cons) + 1
    /\ p_lock' = 0

\* client(..) returns to the connect of a borrow.  Err: borrow returns the
\* error.  Ok: borrow goes round its loop.
Create(t, ok) ==
    /\ p_pc[t] = "create"
    /\ IF ok
       THEN /\ StoreCon(p_ver[t])
            /\ p_pc' = [p_pc EXCEPT ![t] = "read"]
            /\ UNCHANGED << p_ver, p_con, p_known >>
       ELSE /\ p_lock' = 0
            /\ p_pc' = [p_pc EXCEPT ![t] = "idle"]
            /\ p_ver' = [p_ver EXCEPT ![t] = 0]
            /\ p_con' = [p_con EXCEPT ![t] = 0]
            /\ p_known' = [p_known EXCEPT ![t] = 0]
            /\ UNCHANGED pgHolderCon
    /\ UNCHANGED << p_handle, p_failSeen, p_retAlive >>
    /\ UNCHANGED pgKeeper
    /\ UNCHANGED notPg

\* A borrower drops the Arc<Pg> it holds
DropHandle(t) ==
    /\ p_pc[t] = "idle"
    /\ p_handle[t] # 0
    /\ p_handle' = [p_handle EXCEPT ![t] = 0]
    /\ p_retAlive' = [p_retAlive EXCEPT ![t] = FALSE]
    /\ p_known' = [p_known EXCEPT ![t] = 0]
    /\ UNCHANGED << p_lock, p_pc, p_ver, p_con, p_failSeen >>
    /\ UNCHANGED << pgHolderCon, pgKeeper >>
    /\ UNCHANGED notPg

\* A connection fails (drive_connection ends)
ConFails(c) ==
    /\ c \in 1..Len(p_cons)
    /\ p_cons[c]
    /\ p_cons' = [p_cons EXCEPT ![c] = FALSE]
    /\ UNCHANGED << p_version, p_pg, p_join, p_lock, p_pc, p_ver, p_con, p_handle >>
    /\ UNCHANGED << pgKeeper, pgGhosts >>
    /\ UNCHANGED notPg

\* keep_connected: `(locked.version, locked.join_handle.take())`
KeeperTake ==
    /\ k_pc = "take"
    /\ p_lock = 0
    /\ k_ver' = p_version
    /\ k_jh' = p_join
    /\ p_join' = 0
    /\ k_pc' = IF p_join # 0 THEN "join" ELSE "connect"
    /\ UNCHANGED << p_cons, p_version, p_pg, p_lock, p_pc, p_ver, p_con, p_handle >>
    /\ UNCHANGED pgGhosts
    /\ UNCHANGED notPg

\* keep_connected: join_handle.await returns, the driven connection ended
KeeperJoined ==
    /\ k_pc = "join"
    /\ ~p_cons[k_jh]
    /\ k_pc' = "take"
    /\ k_jh' = 0
    /\ k_ver' = 0
    /\ UNCHANGED << p_lock, p_pc, p_ver, p_con, p_handle >>
    /\ UNCHANGED << pgHolderCon, pgGhosts >>
    /\ UNCHANGED notPg

\* keep_connected: holder.connect(ver) obtains the lock
KeeperConnectLock ==
    /\ k_pc = "connect"
    /\ p_lock = 0
    /\ IF ConnectNeeded(k_ver)
       THEN /\ p_lock' = Keeper
            /\ k_pc' = "create"
            /\ UNCHANGED k_ver
       ELSE /\ k_pc' = "take"
            /\ k_ver' = 0
            /\ UNCHANGED p_lock
    /\ UNCHANGED k_jh
    /\ UNCHANGED << p_pc, p_ver, p_con, p_handle >>
    /\ UNCHANGED << pgHolderCon, pgGhosts >>
    /\ UNCHANGED notPg

\* client(..) returns to the connect of keep_connected.  Err: it sleeps for
\* 10 seconds.
KeeperCreate(ok) ==
    /\ k_pc = "create"
    /\ IF ok
       THEN /\ StoreCon(k_ver)
            /\ k_pc' = "take"
       ELSE /\ p_lock' = 0
            /\ k_pc' = "sleep"
            /\ UNCHANGED pgHolderCon
    /\ k_ver' = 0
    /\ UNCHANGED k_jh
    /\ UNCHANGED << p_pc, p_ver, p_con, p_handle >>
    /\ UNCHANGED pgGhosts
    /\ UNCHANGED notPg

\* keep_connected: delay_for(10 s) completes
KeeperWake ==
    /\ k_pc = "sleep"
    /\ k_pc' = "take"
    /\ UNCHANGED << k_ver, k_jh >>
    /\ UNCHANGED << p_lock, p_pc, p_ver, p_con, p_handle >>
    /\ UNCHANGED << pgHolderCon, pgGhosts >>
    /\ UNCHANGED notPg

PgNext ==
    \/ \E t \in Borrowers : BorrowCall(t)
    \/ \E t \in Borrowers : BorrowRead(t)
    \/ \E t \in Borrowers : Probe(t)
    \/ \E t \in Borrowers : ConnectLock(t)
    \/ \E t \in Borrowers : \E ok \in BOOLEAN : Create(t, ok)
    \/ \E t \in Borrowers : DropHandle(t)
    \/ \E c \in 1..MaxCons : ConFails(c)
    \/ KeeperTake
    \/ KeeperJoined
    \/ KeeperConnectLock
    \/ \E ok \in BOOLEAN : KeeperCreate(ok)
    \/ KeeperWake

(***************************************************************************)
(* ==================  search (title_analyzer.rs)  ======================  *)
(*                                                                         *)
(* The branch of search taken when ShowDb::map has an entry for the search *)
(* name.  A show is held as its seasons and years; the entry of the map    *)
(* lists indices of shows and can name a show more than once.              *)
(***************************************************************************)

\* Bounds of the search model: shows in the entry, repeated indices in it
MaxShows == 3

MaxDup == 1

SeasonVals == {1, 2}

YearVals == {2020}

ShowTypes == [seasons : SUBSET SeasonVals, years : SUBSET YearVals]

MetaInputs ==
    [season : {None} \cup {Some(x) : x \in SeasonVals},
     year : {None} \cup {Some(y) : y \in YearVals}]

NoMeta == [season |-> None, year |-> None]

NoResult == [ok |-> FALSE, show |-> 0, n |-> 0]

SearchInit ==
    /\ q_pc = "input"
    /\ q_shows = << >>
    /\ q_entry = << >>
    /\ q_meta = NoMeta
    /\ q_res = NoResult

SearchIdle ==
    /\ q_pc = "idle"
    /\ q_shows = << >>
    /\ q_entry = << >>
    /\ q_meta = NoMeta
    /\ q_res = NoResult

\* Mutant of Unique: repeated indices are kept
Unique_keeps_repeats(seq) == seq

\* .unique(): the first occurrence of every index, in order
RECURSIVE Unique(_)
Unique(seq) ==
    IF seq = << >> THEN << >>
    ELSE LET front == Unique(Front(seq))
         IN  IF Last(seq) \in Range(front) THEN front
             ELSE Append(front, Last(seq))

\* season_matches
SeasonMatches(season, show) ==
    IF season = None THEN show.seasons = {}
    ELSE season[1] \in show.seasons

\* Mutant of YearMatches: an absent year matches a show without years
YearMatches_absent_matches_empty(year, show) ==
    IF year = None THEN show.years = {}
    ELSE year[1] \in show.years

\* year_matches
YearMatches(year, show) ==
    IF year = None THEN FALSE
    ELSE year[1] \in show.years

\* The loop over shows: total_shows, season_shows, year_shows
TotalShows(shows, meta) ==
    LET Test(i) == SeasonMatches(meta.season, q_shows[i])
                   /\ YearMatches(meta.year, q_shows[i])
    IN  SelectSeq(shows, Test)

SeasonShows(shows, meta) ==
    LET Test(i) == SeasonMatches(meta.season, q_shows[i])
                   /\ ~YearMatches(meta.year, q_shows[i])
    IN  SelectSeq(shows, Test)

YearShows(shows, meta) ==
    LET Test(i) == YearMatches(meta.year, q_shows[i])
    IN  SelectSeq(shows, Test)

\* `let shows = if total_shows.is_empty() { .. } else { &total_shows }`
Selected(shows, meta) ==
    LET total_shows == TotalShows(shows, meta)
        season_shows == SeasonShows(shows, meta)
        year_shows == YearShows(shows, meta)
    IN  IF total_shows = << >>
        THEN IF Len(season_shows) = 1 THEN season_shows
             ELSE IF Len(year_shows) = 1 THEN year_shows
             ELSE IF season_shows = << >> THEN shows
             ELSE season_shows
        ELSE total_shows

\* Ok(shows[0]) for a single show, else Err("found {} perfect matches")
ResultOf(shows) ==
    IF Len(shows) = 1 THEN [ok |-> TRUE, show |-> shows[1], n |-> 1]
    ELSE [ok |-> FALSE, show |-> 0, n |-> Len(shows)]

\* search, given the entry of the map
SearchEntry(entry, meta) ==
    LET shows == Unique(entry)
    IN  IF Len(shows) = 1 THEN ResultOf(shows)
        ELSE ResultOf(Selected(shows, meta))

\* The database gets one more show whose name has the search name
PushShow(sh) ==
    /\ q_pc = "input"
    /\ Len(q_shows) < MaxShows
    /\ q_shows' = Append(q_shows, sh)
    /\ q_entry' = Append(q_entry, Len(q_shows) + 1)
    /\ UNCHANGED << q_pc, q_meta, q_res >>
    /\ UNCHANGED notSearch

\* One more name of show i has the search name
PushDup(i) ==
    /\ q_pc = "input"
    /\ i \in 1..Len(q_shows)
    /\ Len(q_entry) < Len(q_shows) + MaxDup
    /\ q_entry' = Append(q_entry, i)
    /\ UNCHANGED << q_pc, q_shows, q_meta, q_res >>
    /\ UNCHANGED notSearch

\* search(db, title, meta) with an entry in the map
Search(meta) ==
    /\ q_pc = "input"
    /\ q_entry # << >>
    /\ q_pc' = "done"
    /\ q_meta' = meta
    /\ q_res' = SearchEntry(q_entry, meta)
    /\ UNCHANGED << q_shows, q_entry >>
    /\ UNCHANGED notSearch

SearchNext ==
    \/ \E sh \in ShowTypes : PushShow(sh)
    \/ \E i \in 1..MaxShows : PushDup(i)
    \/ \E meta \in MetaInputs : Search(meta)

(***************************************************************************)
(* build_db (show_db.rs) and search on the database it builds              *)
(* (title_analyzer.rs).  A name is a sequence of items: an item is a byte  *)
(* (a, b, A, space) or stands for one of the texts "(2020)", "(tv)" and    *)
(* "season 2", the only places of such a name where the regular            *)
(* expressions of find_year, find_format and find_season can match.        *)
(***************************************************************************)
MaxNames == 2

YearToks == {2020}

FormatToks == {301}

SeasonToks == {402}

\* The names of the rows of load_names: "", "a", "A", "b", "ab", " ",
\* "(2020)", "a(2020)", "(2020)(2020)", "a(tv)", "season 2", "a season 2"
\* and "aseason 2"
NameInputs ==
    { << >>, << 97 >>, << 65 >>, << 98 >>, << 97, 98 >>, << 32 >>,
      << 2020 >>, << 97, 2020 >>, << 2020, 2020 >>, << 97, 301 >>,
      << 402 >>, << 97, 32, 402 >>, << 97, 402 >> }

DbShowIdxs == {1, 2}

NoDb == [shows |-> << >>, map |-> << >>, heap |-> [payloads |-> << >>, nodes |-> << >>]]

\* load_shows: formats holds the catalogue format, years the catalogue
\* airing year when the season column is not null, seasons is empty
LoadedShows ==
    { [formats |-> << "Tv" >>, years |-> << >>, seasons |-> << >>],
      [formats |-> << "Movie" >>, years |-> << 2020 >>, seasons |-> << >>] }

DbInit ==
    /\ b_pc = "input"
    /\ b_shows \in [DbShowIdxs -> LoadedShows]
    /\ b_names = << >>
    /\ b_db = NoDb
    /\ b_title = << >>
    /\ b_res = NoResult

DbIdle ==
    /\ b_pc = "idle"
    /\ b_shows = << >>
    /\ b_names = << >>
    /\ b_db = NoDb
    /\ b_title = << >>
    /\ b_res = NoResult

\* The text an item stands for
ItemText(x) ==
    IF x \in YearToks
    THEN << 40, 48 + (x \div 1000), 48 + ((x \div 100) % 10),
            48 + ((x \div 10) % 10), 48 + (x % 10), 41 >>
    ELSE IF x \in FormatToks THEN << 40, 116, 118, 41 >>
    ELSE IF x \in SeasonToks THEN << 115, 101, 97, 115, 111, 110, 32, 48 + (x - 400) >>
    ELSE << x >>

RECURSIVE NameText(_)
NameText(name) ==
    IF name = << >> THEN << >> ELSE ItemText(name[1]) \o NameText(Tail(name))

\* A word character (\w) of the regular expressions
IsWordByte(c) ==
    (c >= 97 /\ c <= 122) \/ (c >= 65 /\ c <= 90) \/ (c >= 48 /\ c <= 57) \/ c = 95

RemoveAt(s, i) == SubSeq(s, 1, i - 1) \o SubSeq(s, i + 1, Len(s))

\* find_year: the first match of \((\d{4})\), 0 when there is none
find_year(name) ==
    LET hits == { i \in 1..Len(name) : name[i] \in YearToks }
    IN  IF hits = {} THEN 0 ELSE CHOOSE i \in hits : \A j \in hits : i <= j

\* find_format: the first match of \((tv|movie|ova|ona|oad)\)
find_format(name) ==
    LET hits == { i \in 1..Len(name) : name[i] \in FormatToks }
    IN  IF hits = {} THEN 0 ELSE CHOOSE i \in hits : \A j \in hits : i <= j

\* find_season: the last match of (^|\b)(.. season\s\d{1,5} ..)(\b|$); the
\* text matches only between word boundaries
find_season(name) ==
    LET hits == { i \in 1..Len(name) :
                    /\ name[i] \in SeasonToks
                    /\ i = 1 \/ ~IsWordByte(Last(ItemText(name[i - 1])))
                    /\ i = Len(name) \/ ~IsWordByte(Head(ItemText(name[i + 1]))) }
    IN  IF hits = {} THEN 0 ELSE CHOOSE i \in hits : \A j \in hits : j <= i

\* search_name (show_db.rs): the bytes within [a-z0-9], nothing lowercased
RECURSIVE search_name(_)
search_name(s) ==
    IF s = << >> THEN << >>
    ELSE (IF IsLowerAlnum(s[1]) THEN << s[1] >> ELSE << >>) \o search_name(Tail(s))

\* `if list.iter().all(|&y| y != v) { list.push(v) }`
PushIfAbsent(list, v) == IF v \in Range(list) THEN list ELSE Append(list, v)

\* The body of `for name in show_names.iter(names)`: the show after the
\* name's year, format and season were recorded, and the name's search name
NameLoop(show, raw) ==
    LET name0 == [i \in 1..Len(raw) |-> to_ascii_lowercase(raw[i])]
        y == find_year(name0)
        years == IF y # 0 THEN PushIfAbsent(show.years, name0[y]) ELSE show.years
        name1 == IF y # 0 THEN RemoveAt(name0, y) ELSE name0
        f == find_format(name1)
        formats == IF f # 0 THEN PushIfAbsent(show.formats, "Tv") ELSE show.formats
        name2 == IF f # 0 THEN RemoveAt(name1, f) ELSE name1
        s == find_season(name2)
        seasons == IF s # 0 THEN Append(show.seasons, name2[s] - 400) ELSE show.seasons
        name3 == IF s # 0 THEN RemoveAt(name2, s) ELSE name2
    IN  [show |-> [formats |-> formats, years |-> years, seasons |-> seasons],
         key |-> search_name(NameText(name3))]

\* `for (show_id, names) in names`: the shows and search_name_ranges after it
RECURSIVE NamesLoop(_, _, _, _)
NamesLoop(shows, names, i, ranges) ==
    IF i > Len(names) THEN [shows |-> shows, ranges |-> ranges]
    ELSE LET show_idx == names[i].show
             r == NameLoop(shows[show_idx], names[i].name)
         IN  NamesLoop([shows EXCEPT ![show_idx] = r.show], names, i + 1,
                       Append(ranges, [key |-> r.key, show_idx |-> show_idx]))

\* The show indices pushed to the entry of one key, in order
RECURSIVE IdxsOf(_, _)
IdxsOf(ranges, key) ==
    IF ranges = << >> THEN << >>
    ELSE (IF ranges[1].key = key THEN << ranges[1].show_idx >> ELSE << >>)
         \o IdxsOf(Tail(ranges), key)

\* Mutant of MapEntry: a later name with the same key replaces the entry
MapEntry_replaced(ranges, key) == << Last(IdxsOf(ranges, key)) >>

\* names_map.entry(key).or_insert(smallvec![]).push(show_idx), for every range
MapEntry(ranges, key) == IdxsOf(ranges, key)

NamesMap(ranges) ==
    [key \in { ranges[i].key : i \in 1..Len(ranges) } |-> MapEntry(ranges, key)]

\* names_map.iter().flat_map(..): the pairs handed to AsciiHeap::new when the
\* map is iterated in the given order of its keys
RECURSIVE FlatMap(_, _)
FlatMap(map, order) ==
    IF order = << >> THEN << >>
    ELSE [i \in 1..Len(map[order[1]]) |->
              [key |-> order[1], payload |-> map[order[1]][i]]]
         \o FlatMap(map, Tail(order))

\* The orders in which a HashMap with these keys can be iterated
IterOrders(keys) == { o \in [1..Cardinality(keys) -> keys] : Range(o) = keys }

build_db(shows, names, order) ==
    LET r == NamesLoop(shows, names, 1, << >>)
        names_map == NamesMap(r.ranges)
    IN  [shows |-> r.shows, map |-> names_map,
         heap |-> AsciiHeapNew(FlatMap(names_map, order))]

\* .take(10)
Take(s, n) == SubSeq(s, 1, IF Len(s) < n THEN Len(s) ELSE n)

\* search without an entry in the map: the shows below heap.find(search_name)
SearchHeap(db, name) ==
    LET idx == find(db.heap, name)
        r == Take(Unique(IterCollect(db.heap, iter(idx), IterFuel(db.heap), << >>).out), 10)
    IN  IF Len(r) = 1 THEN [ok |-> TRUE, show |-> r[1], n |-> 1]
        ELSE [ok |-> FALSE, show |-> 0, n |-> Len(r)]

\* search with an entry in the map
SearchMap(db, entry, meta) ==
    LET shows == Unique(entry)
        Sets(i) == [seasons |-> Range(db.shows[i].seasons),
                    years |-> Range(db.shows[i].years)]
        Total(i) == SeasonMatches(meta.season, Sets(i)) /\ YearMatches(meta.year, Sets(i))
        Season(i) == SeasonMatches(meta.season, Sets(i)) /\ ~YearMatches(meta.year, Sets(i))
        Year(i) == YearMatches(meta.year, Sets(i))
        total_shows == SelectSeq(shows, Total)
        season_shows == SelectSeq(shows, Season)
        year_shows == SelectSeq(shows, Year)
    IN  IF Len(shows) = 1 THEN ResultOf(shows)
        ELSE IF total_shows # << >> THEN ResultOf(total_shows)
        ELSE IF Len(season_shows) = 1 THEN ResultOf(season_shows)
        ELSE IF Len(year_shows) = 1 THEN ResultOf(year_shows)
        ELSE IF season_shows = << >> THEN ResultOf(shows)
        ELSE ResultOf(season_shows)

\* search(db, pre_episode_title, metadata)
search(db, title, meta) ==
    LET name == search_name(title)
    IN  IF name \in DOMAIN db.map THEN SearchMap(db, db.map[name], meta)
        ELSE SearchHeap(db, name)

\* The titles searched: "", "a", "b", "ab", "aa", "as"
TitleInputs ==
    { << >>, << 97 >>, << 98 >>, << 97, 98 >>, << 97, 97 >>, << 97, 115 >> }

\* load_names returns one more row: a name of a show (rows are ordered by show)
AddName(show_idx, name) ==
    /\ b_pc = "input"
    /\ Len(b_names) < MaxNames
    /\ b_names # << >> => Last(b_names).show <= show_idx
    /\ b_names' = Append(b_names, [show |-> show_idx, name |-> name])
    /\ UNCHANGED << b_pc, b_shows, b_db, b_title, b_res >>
    /\ UNCHANGED notDb

\* build_db; the map is iterated in one of the orders a HashMap allows
BuildDb ==
    /\ b_pc = "input"
    /\ b_pc' = "built"
    /\ \E order \in IterOrders(DOMAIN NamesMap(NamesLoop(b_shows, b_names, 1, << >>).ranges)) :
          b_db' = build_db(b_shows, b_names, order)
    /\ UNCHANGED << b_shows, b_names, b_title, b_res >>
    /\ UNCHANGED notDb

\* search on the built database, without metadata
SearchDb(title) ==
    /\ b_pc = "built"
    /\ b_pc' = "searched"
    /\ b_title' = title
    /\ b_res' = search(b_db, title, NoMeta)
    /\ UNCHANGED << b_shows, b_names, b_db >>
    /\ UNCHANGED notDb

DbNext ==
    \/ \E show_idx \in DbShowIdxs, name \in NameInputs :
          AddName(show_idx, name)
    \/ BuildDb
    \/ \E title \in TitleInputs : SearchDb(title)

(***************************************************************************)
(* find_separator and normalize_title (title_analyzer.rs).  A title is a   *)
(* sequence of the characters ' ', '_', '.', 'a' and 'A'.                  *)
(***************************************************************************)
MaxTitleLen == 4

TitleChars == {32, 95, 46, 97, 65}

NormInit ==
    /\ n_pc = "input"
    /\ n_title = << >>
    /\ n_once = << >>
    /\ n_twice = << >>

NormIdle ==
    /\ n_pc = "idle"
    /\ n_title = << >>
    /\ n_once = << >>
    /\ n_twice = << >>

CountOf(title, c) == Cardinality({ i \in 1..Len(title) : title[i] = c })

\* find_separator: ' ' at the first space; without '_' and '.' also ' ';
\* else '_' when there are at least as many '_' as '.', else '.'
find_separator(title) ==
    IF CountOf(title, 32) > 0 THEN 32
    ELSE IF CountOf(title, 95) = 0 /\ CountOf(title, 46) = 0 THEN 32
    ELSE IF CountOf(title, 95) >= CountOf(title, 46) THEN 95
    ELSE 46

\* The loop of normalize_title from character i on
RECURSIVE NormalizeFrom(_, _, _, _, _)
NormalizeFrom(title, separator, i, last_was_space, res) ==
    IF i > Len(title)
    THEN IF last_was_space /\ res # << >> THEN Front(res) ELSE res
    ELSE IF title[i] = separator
    THEN NormalizeFrom(title, separator, i + 1, TRUE,
                       IF last_was_space THEN res ELSE Append(res, 32))
    ELSE NormalizeFrom(title, separator, i + 1, FALSE,
                       Append(res, to_ascii_lowercase(title[i])))

normalize_title(title, separator) == NormalizeFrom(title, separator, 1, TRUE, << >>)

\* The composition find_show starts with
normalize(title) == normalize_title(title, find_separator(title))

\* A raw title is normalized
Normalize(title) ==
    /\ n_pc = "input"
    /\ n_pc' = "once"
    /\ n_title' = title
    /\ n_once' = normalize(title)
    /\ UNCHANGED n_twice
    /\ UNCHANGED notNorm

\* The normalized title is normalized again
NormalizeAgain ==
    /\ n_pc = "once"
    /\ n_pc' = "twice"
    /\ n_twice' = normalize(n_once)
    /\ UNCHANGED << n_title, n_once >>
    /\ UNCHANGED notNorm

NormNext ==
    \/ \E title \in SeqsUpTo(TitleChars, MaxTitleLen) : Normalize(title)
    \/ NormalizeAgain

(***************************************************************************)
(* load_torrents_, scrape_page and insert_torrent (nyaa.rs).  A row of a   *)
(* listing page is either malformed (parse_row fails) or holds a nyaa_id   *)
(* and a title; the title is represented by the result find_show has for   *)
(* it on the current ShowDb: a show, or 0 for an error.                    *)
(***************************************************************************)
MaxBatch == 3

PageLimit == 2

IdSlack == 74

NyaaIds == {1, 76, 77}

TorrentShows == {0, 1}

BadRow == [ok |-> FALSE, nyaa_id |-> 0, show |-> 0]

Rows == {BadRow} \cup [ok : {TRUE}, nyaa_id : NyaaIds, show : TorrentShows]

\* The stores a scrape can start from: torrent 1 absent, unlinked or linked
\* to show 1, then torrent 76 absent or unlinked
InitStores ==
    { one \o other :
        one \in { << >>, << [nyaa_id |-> 1, matched |-> FALSE] >>,
                  << [nyaa_id |-> 1, matched |-> TRUE] >> },
        other \in { << >>, << [nyaa_id |-> 76, matched |-> FALSE] >> } }

MaxNyaaId(store) ==
    IF store = << >> THEN 0
    ELSE CHOOSE m \in { store[i].nyaa_id : i \in 1..Len(store) } :
             \A i \in 1..Len(store) : store[i].nyaa_id <= m

NoOld == [store |-> << >>, links |-> {}]

NyaaInit ==
    /\ y_pc = "start"
    /\ y_store \in InitStores
    /\ y_links = { [torrent_id |-> i, show |-> 1] : i \in { j \in 1..Len(y_store) : y_store[j].matched } }
    /\ y_state = MaxNyaaId(y_store)
    /\ y_max = 0
    /\ y_torrents = << >>
    /\ y_pages = << >>
    /\ y_old = NoOld
    /\ y_ran = {}
    /\ y_i = 1
    /\ y_asked = << >>

NyaaIdle ==
    /\ y_pc = "idle"
    /\ y_store = << >>
    /\ y_links = {}
    /\ y_state = 0
    /\ y_max = 0
    /\ y_torrents = << >>
    /\ y_pages = << >>
    /\ y_old = NoOld
    /\ y_ran = {}
    /\ y_i = 1
    /\ y_asked = << >>

\* scrape_page: `parse_row(&torrent)..?` returns the error of the first
\* malformed row
ParseFails(rows) == \E i \in 1..Len(rows) : ~rows[i].ok

\* The torrents scrape_page pushes for a page
PageTorrents(rows) ==
    LET good == SelectSeq(rows, LAMBDA r : r.ok)
    IN  [i \in 1..Len(good) |->
            [nyaa_id |-> good[i].nyaa_id, show |-> good[i].show, torrent_id |-> 0]]

\* Mutant of SawExisting: the loop never breaks
SawExisting_never(new, max_nyaa_id) == FALSE

\* `new.iter().any(|t| t.nyaa_id.saturating_add(74) <= max_nyaa_id)`; the ids
\* here are far from the end of i64, where the sum saturates
SawExisting(new, max_nyaa_id) ==
    \E i \in 1..Len(new) : new[i].nyaa_id + IdSlack <= max_nyaa_id

\* torrents.sort_by_key(|t| t.nyaa_id): a stable sort
RECURSIVE SortByNyaaId(_)
SortByNyaaId(torrents) ==
    IF torrents = << >> THEN << >>
    ELSE LET rest == SortByNyaaId(Front(torrents))
             t == Last(torrents)
             k == Cardinality({ i \in 1..Len(rest) : rest[i].nyaa_id <= t.nyaa_id })
         IN  SubSeq(rest, 1, k) \o << t >> \o SubSeq(rest, k + 1, Len(rest))

\* Mutant of Have: the count query is not consulted
Have_not_consulted(store, nyaa_id) == FALSE

\* insert_torrent: `select count(*) .. where nyaa_id = $1` > 0
Have(store, nyaa_id) == \E i \in 1..Len(store) : store[i].nyaa_id = nyaa_id

\* `for torrent in &mut torrents { insert_torrent(&tran, torrent) }`: the
\* store and the batch after the first i torrents
RECURSIVE InsertLoop(_, _, _)
InsertLoop(store, torrents, i) ==
    IF i = 0 THEN [store |-> store, torrents |-> torrents]
    ELSE LET r == InsertLoop(store, torrents, i - 1)
         IN  IF Have(r.store, torrents[i].nyaa_id) THEN r
             ELSE [store |-> Append(r.store, [nyaa_id |-> torrents[i].nyaa_id,
                                              matched |-> FALSE]),
                   torrents |-> [r.torrents EXCEPT ![i].torrent_id = Len(r.store) + 1]]

\* The batch positions of the second loop that reach find_show
Inserted(torrents) == { i \in 1..Len(torrents) : torrents[i].torrent_id # 0 }

\* insert_match for every inserted torrent whose find_show is Ok
MatchLoop(store, links, torrents) ==
    LET hit == { i \in Inserted(torrents) : torrents[i].show # 0 }
        ids == { torrents[i].torrent_id : i \in hit }
    IN  [store |-> [k \in 1..Len(store) |->
                       IF k \in ids THEN [store[k] EXCEPT !.matched = TRUE] ELSE store[k]],
         links |-> links \cup { [torrent_id |-> torrents[i].torrent_id,
                                 show |-> torrents[i].show] : i \in hit }]

RECURSIVE SumRows(_, _)
SumRows(pages, n) == IF n = 0 THEN 0 ELSE Len(pages[n]) + SumRows(pages, n - 1)

\* db_state::get(MAX_NYAA_SI_ID)
StartScrape ==
    /\ y_pc = "start"
    /\ y_pc' = "fetch"
    /\ y_max' = y_state
    /\ UNCHANGED << y_store, y_links, y_state, y_torrents, y_pages, y_old, y_ran, y_i, y_asked >>
    /\ UNCHANGED notNyaa

\* One turn of `for i in 1..=100`: scrape_page and the test of saw_existing
FetchPage(rows) ==
    /\ y_pc = "fetch"
    /\ SumRows(y_pages, Len(y_pages)) + Len(rows) <= MaxBatch
    /\ y_pages' = Append(y_pages, rows)
    /\ y_asked' = Append(y_asked, y_i)
    /\ IF ParseFails(rows)
       THEN /\ y_pc' = "failed"
            /\ y_torrents' = << >>
            /\ y_i' = y_i
       ELSE /\ y_torrents' = y_torrents \o PageTorrents(rows)
            /\ IF SawExisting(PageTorrents(rows), y_max) \/ y_i = PageLimit
               THEN y_pc' = "ingest" /\ y_i' = y_i
               ELSE y_pc' = "fetch" /\ y_i' = y_i + 1
    /\ UNCHANGED << y_store, y_links, y_state, y_max, y_old, y_ran >>
    /\ UNCHANGED notNyaa

\* scrape_page fails before any row is read (no answer, status not 200)
FetchFail ==
    /\ y_pc = "fetch"
    /\ y_pc' = "failed"
    /\ y_torrents' = << >>
    /\ y_asked' = Append(y_asked, y_i)
    /\ UNCHANGED << y_store, y_links, y_state, y_max, y_pages, y_old, y_ran, y_i >>
    /\ UNCHANGED notNyaa

\* The rest of load_torrents_: nothing for an empty batch, else the
\* transaction that inserts, matches, updates the state row and commits
Ingest ==
    /\ y_pc = "ingest"
    /\ y_pc' = "done"
    /\ y_old' = [store |-> y_store, links |-> y_links]
    /\ IF y_torrents = << >>
       THEN UNCHANGED << y_store, y_links, y_state, y_torrents, y_ran >>
       ELSE LET ins == InsertLoop(y_store, SortByNyaaId(y_torrents), Len(y_torrents))
                mat == MatchLoop(ins.store, y_links, ins.torrents)
            IN  /\ y_torrents' = ins.torrents
                /\ y_ran' = Inserted(ins.torrents)
                /\ y_store' = mat.store
                /\ y_links' = mat.links
                /\ y_state' = MaxNyaaId(mat.store)
    /\ UNCHANGED << y_max, y_pages, y_i, y_asked >>
    /\ UNCHANGED notNyaa

\* A store error during the transaction (or while getting the ShowDb or the
\* connection): `?` returns, the transaction is rolled back
IngestFail ==
    /\ y_pc = "ingest"
    /\ y_torrents # << >>
    /\ y_pc' = "failed"
    /\ UNCHANGED << y_store, y_links, y_state, y_max, y_torrents, y_pages, y_old, y_ran,
                    y_i, y_asked >>
    /\ UNCHANGED notNyaa

NyaaNext ==
    \/ StartScrape
    \/ \E rows \in SeqsUpTo(Rows, MaxBatch) : FetchPage(rows)
    \/ FetchFail
    \/ Ingest
    \/ IngestFail

(***************************************************************************)
(* match_unmatched, get_rematch_unmatched and match_unmatched_             *)
(* (matcher.rs).  The title of a torrent is represented by the result      *)
(* find_show has for it on the current ShowDb: a show, or 0 for an error.  *)
(***************************************************************************)
MaxTorrents == 2

RematchValues == {0, 1, 2, 3}

MatchShows == {0, 1, 2}

\* A torrent row and the show it is linked to (0: no link)
TorrentInputs == [show : MatchShows, link : MatchShows]

MatchInit ==
    /\ m_pc = "read"
    /\ m_state \in RematchValues
    /\ \E ts \in SeqsUpTo(TorrentInputs, MaxTorrents) :
          /\ m_torrents = [i \in 1..Len(ts) |-> [show |-> ts[i].show,
                                                 matched |-> ts[i].link # 0]]
          /\ m_links = { [torrent_id |-> i, show |-> ts[i].link] :
                           i \in { j \in 1..Len(ts) : ts[j].link # 0 } }
    /\ m_mode = "None"
    /\ m_old = [torrents |-> m_torrents, links |-> m_links]
    /\ m_ran = {}
    /\ m_end = "none"

MatchIdle ==
    /\ m_pc = "idle"
    /\ m_state = 0
    /\ m_torrents = << >>
    /\ m_links = {}
    /\ m_mode = "None"
    /\ m_old = [torrents |-> << >>, links |-> {}]
    /\ m_ran = {}
    /\ m_end = "none"

\* get_rematch_unmatched: the mode for the value read
ModeOf(res) ==
    IF res = 1 THEN "Unmatched" ELSE IF res = 2 THEN "All" ELSE "None"

\* `truncate magnets.rel_torrent_show` when the mode is All
AfterTruncate(mode, links) == IF mode = "All" THEN {} ELSE links

\* `update magnets.torrent t set matched = exists (..)`
SetMatched(torrents, links) ==
    [i \in 1..Len(torrents) |->
        [torrents[i] EXCEPT !.matched = \E l \in links : l.torrent_id = i]]

\* Mutant of Unmatched: the rows are taken without the matched column
Unmatched_all_rows(torrents) == 1..Len(torrents)

\* `select * from magnets.torrent where not matched`
Unmatched(torrents) == { i \in 1..Len(torrents) : ~torrents[i].matched }

\* The loop over the rows: insert_match for every Ok of find_show
MatchRows(torrents, links, rows) ==
    LET hit == { i \in rows : torrents[i].show # 0 }
    IN  [torrents |-> [i \in 1..Len(torrents) |->
                          IF i \in hit THEN [torrents[i] EXCEPT !.matched = TRUE]
                          ELSE torrents[i]],
         links |-> links \cup { [torrent_id |-> i, show |-> torrents[i].show] : i \in hit }]

\* get_rematch_unmatched; an error of the read counts as None
ReadMode(ok) ==
    /\ m_pc = "read"
    /\ m_mode' = IF ok THEN ModeOf(m_state) ELSE "None"
    /\ m_pc' = IF m_mode' = "None" THEN "done" ELSE "run"
    /\ UNCHANGED << m_state, m_torrents, m_links, m_old, m_ran, m_end >>
    /\ UNCHANGED notMatch

\* Someone writes rematch_unmatched while the run is under way
SetRematch(v) ==
    /\ m_pc = "run"
    /\ m_state # v
    /\ m_state' = v
    /\ UNCHANGED << m_pc, m_mode, m_torrents, m_links, m_old, m_ran, m_end >>
    /\ UNCHANGED notMatch

\* match_unmatched_: the transaction up to its commit
Rematch ==
    /\ m_pc = "run"
    /\ m_pc' = "done"
    /\ LET links1 == AfterTruncate(m_mode, m_links)
           torrents1 == SetMatched(m_torrents, links1)
           rows == Unmatched(torrents1)
           r == MatchRows(torrents1, links1, rows)
       IN  /\ m_ran' = rows
           /\ m_torrents' = r.torrents
           /\ m_links' = r.links
    /\ m_state' = 0
    /\ m_end' = "committed"
    /\ UNCHANGED << m_mode, m_old >>
    /\ UNCHANGED notMatch

\* match_unmatched_ returns an error: the transaction is rolled back
RematchFail ==
    /\ m_pc = "run"
    /\ m_pc' = "done"
    /\ m_end' = "failed"
    /\ UNCHANGED << m_state, m_mode, m_torrents, m_links, m_old, m_ran >>
    /\ UNCHANGED notMatch

MatchNext ==
    \/ \E ok \in BOOLEAN : ReadMode(ok)
    \/ \E v \in RematchValues : SetRematch(v)
    \/ Rematch
    \/ RematchFail

(***************************************************************************)
(* Regular expressions as the regex crate matches them on ASCII text: the  *)
(* leftmost match, and among the matches at one start the first in the     *)
(* order of preference (alternatives left to right, greedy repetition).    *)
(* Matching a pattern at position i of s gives the sequence of its matches *)
(* in that order, each with its end and the named groups captured.         *)
(***************************************************************************)
Eps == [k |-> "eps"]

Bol == [k |-> "bol"]

Eol == [k |-> "eol"]

Wb == [k |-> "wb"]

Chr(set) == [k |-> "chr", set |-> set]

Not(set) == [k |-> "not", set |-> set]

Lit(str) == [k |-> "lit", str |-> str]

Cat(rs) == [k |-> "cat", rs |-> rs]

Alt(rs) == [k |-> "alt", rs |-> rs]

Opt(r) == [k |-> "opt", r |-> r]

Star(r) == [k |-> "star", r |-> r]

Grp(name, r) == [k |-> "grp", name |-> name, r |-> r]

\* r+, \d and \s
Plus(r) == Cat(<< r, Star(r) >>)

Dig == Chr(48..57)

Ws == Chr({9, 10, 11, 12, 13, 32})

\* \w at position i (1-based) of s; FALSE outside s
IsWordAt(s, i) == i >= 1 /\ i <= Len(s) /\ IsWordByte(s[i])

RECURSIVE RM(_, _, _, _)
RECURSIVE Bind(_, _, _)
RECURSIVE RMCat(_, _, _, _)
RECURSIVE RMAlt(_, _, _, _, _)

\* The matches of r from every start of `starts`, in order
Bind(r, s, starts) ==
    IF starts = << >> THEN << >>
    ELSE RM(r, s, starts[1].e, starts[1].c) \o Bind(r, s, Tail(starts))

RMCat(rs, n, s, starts) ==
    IF n > Len(rs) \/ starts = << >> THEN starts
    ELSE RMCat(rs, n + 1, s, Bind(rs[n], s, starts))

RMAlt(rs, n, s, i, c) ==
    IF n > Len(rs) THEN << >>
    ELSE RM(rs[n], s, i, c) \o RMAlt(rs, n + 1, s, i, c)

RM(r, s, i, c) ==
    LET here == << [e |-> i, c |-> c] >>
        next == << [e |-> i + 1, c |-> c] >>
    IN  CASE r.k = "eps" -> here
          [] r.k = "bol" -> IF i = 1 THEN here ELSE << >>
          [] r.k = "eol" -> IF i = Len(s) + 1 THEN here ELSE << >>
          [] r.k = "wb" -> IF IsWordAt(s, i - 1) # IsWordAt(s, i) THEN here ELSE << >>
          [] r.k = "chr" -> IF i <= Len(s) /\ s[i] \in r.set THEN next ELSE << >>
          [] r.k = "not" -> IF i <= Len(s) /\ s[i] \notin r.set THEN next ELSE << >>
          [] r.k = "lit" ->
                IF i + Len(r.str) - 1 <= Len(s) /\ SubSeq(s, i, i + Len(r.str) - 1) = r.str
                THEN << [e |-> i + Len(r.str), c |-> c] >> ELSE << >>
          [] r.k = "cat" -> RMCat(r.rs, 1, s, here)
          [] r.k = "alt" -> RMAlt(r.rs, 1, s, i, c)
          [] r.k = "opt" -> RM(r.r, s, i, c) \o here
          [] r.k = "star" ->
                LET Moved(x) == x.e > i
                IN  Bind(r, s, SelectSeq(RM(r.r, s, i, c), Moved)) \o here
          [] r.k = "grp" ->
                LET ms == RM(r.r, s, i, c)
                IN  [n \in 1..Len(ms) |->
                        [e |-> ms[n].e,
                         c |-> Append(ms[n].c, [name |-> r.name, start |-> i - 1,
                                                end |-> ms[n].e - 1])]]

NoMatch == [found |-> FALSE, start |-> 0, end |-> 0, c |-> << >>]

\* Regex::captures: the leftmost match of r in s, as byte offsets
RECURSIVE CapturesFrom(_, _, _)
CapturesFrom(r, s, i) ==
    IF i > Len(s) + 1 THEN NoMatch
    ELSE LET ms == RM(r, s, i, << >>)
         IN  IF ms # << >>
             THEN [found |-> TRUE, start |-> i - 1, end |-> ms[1].e - 1, c |-> ms[1].c]
             ELSE CapturesFrom(r, s, i + 1)

Captures(r, s) == CapturesFrom(r, s, 1)

\* Captures::name: the last capture of the group, << >> when it took no part
Named(m, name) ==
    LET hits == { n \in 1..Len(m.c) : m.c[n].name = name }
    IN  IF hits = {} THEN << >>
        ELSE << m.c[CHOOSE n \in hits : \A n2 \in hits : n2 <= n] >>

\* find_year: \((\d{4})\)
YEAR ==
    Cat(<< Lit(<< 40 >>), Cat(<< Dig, Dig, Dig, Dig >>), Lit(<< 41 >>) >>)

\* find_format: \((tv|movie|ova|ona|oad)\)
FORMAT ==
    Cat(<< Lit(<< 40 >>), Alt(<< Lit(<< 116, 118 >>), Lit(<< 109, 111, 118,
        105, 101 >>), Lit(<< 111, 118, 97 >>), Lit(<< 111, 110, 97 >>),
        Lit(<< 111, 97, 100 >>) >>), Lit(<< 41 >>) >>)

\* find_season: <N>(st|nd|rd|th) season, season <N>, s<N>, (first|second|third) season
SEASON ==
    Cat(<< Alt(<< Bol, Wb >>), Alt(<< Cat(<< Grp("season1", Plus(Dig)),
        Alt(<< Lit(<< 115, 116 >>), Lit(<< 110, 100 >>), Lit(<< 114, 100 >>),
        Lit(<< 116, 104 >>) >>), Ws, Lit(<< 115, 101, 97, 115, 111,
        110 >>) >>), Cat(<< Lit(<< 115, 101, 97, 115, 111, 110 >>), Ws,
        Grp("season2", Cat(<< Dig, Opt(Cat(<< Dig, Opt(Cat(<< Dig,
        Opt(Cat(<< Dig, Opt(Dig) >>)) >>)) >>)) >>)) >>),
        Cat(<< Lit(<< 115 >>), Grp("season3", Plus(Dig)) >>),
        Cat(<< Grp("season4", Alt(<< Lit(<< 102, 105, 114, 115, 116 >>),
        Lit(<< 115, 101, 99, 111, 110, 100 >>), Lit(<< 116, 104, 105, 114,
        100 >>) >>)), Ws, Lit(<< 115, 101, 97, 115, 111, 110 >>) >>) >>),
        Alt(<< Wb, Eol >>) >>)

\* find_name_range: the file information words, between word boundaries
FILE_INFO ==
    Cat(<< Wb, Alt(<< Lit(<< 46, 109, 107, 118 >>), Lit(<< 109, 107, 118 >>),
        Lit(<< 55, 50, 48, 112 >>), Lit(<< 51, 54, 48, 112 >>), Lit(<< 49,
        48, 56, 48, 112 >>), Lit(<< 109, 117, 108, 116, 105, 112, 108, 101,
        115, 117, 98, 116, 105, 116, 108, 101 >>), Lit(<< 52, 56, 48,
        112 >>), Lit(<< 97, 97, 99 >>), Lit(<< 104, 101, 118, 99 >>),
        Lit(<< 101, 110, 103, 108, 105, 115, 104, 100, 117, 98 >>),
        Cat(<< Lit(<< 109, 117, 108, 116, 105 >>), Opt(Lit(<< 45 >>)),
        Lit(<< 115, 117, 98 >>), Opt(Lit(<< 115 >>)) >>), Lit(<< 53, 52, 48,
        112 >>), Lit(<< 49, 48, 98, 105, 116 >>), Lit(<< 49, 48, 45, 98, 105,
        116 >>), Lit(<< 120, 50, 54, 53 >>), Lit(<< 97, 118, 49 >>),
        Lit(<< 54, 48, 112, 102, 115 >>), Lit(<< 100, 117, 97, 108, 45, 97,
        117, 100, 105, 111 >>), Lit(<< 120, 50, 54, 52 >>) >>), Wb >>)

\* find_episode: the broad episode suffix
R1 ==
    Cat(<< Alt(<< Bol, Not((97..122) \cup (48..57)) >>),
        Opt(Cat(<< Lit(<< 101, 112 >>), Opt(Alt(<< Lit(<< 46 >>),
        Cat(<< Lit(<< 105, 115, 111, 100, 101 >>),
        Opt(Lit(<< 115 >>)) >>) >>)), Star(Ws) >>)), Alt(<< Cat(<< Plus(Dig),
        Star(Ws), Lit(<< 126 >>), Star(Ws), Plus(Dig) >>),
        Cat(<< Lit(<< 45 >>), Star(Ws), Plus(Dig), Star(Ws), Lit(<< 45 >>),
        Star(Ws), Plus(Dig) >>), Cat(<< Plus(Dig), Lit(<< 45 >>),
        Plus(Dig) >>), Cat(<< Lit(<< 48 >>), Plus(Dig), Star(Ws),
        Lit(<< 45 >>), Star(Ws), Plus(Dig) >>),
        Cat(<< Alt(<< Cat(<< Lit(<< 115 >>), Grp("season", Plus(Dig)),
        Lit(<< 101 >>) >>), Cat(<< Lit(<< 45 >>), Star(Ws) >>), Grp("plain",
        Dig) >>), Plus(Dig), Opt(Cat(<< Lit(<< 46 >>), Dig >>)), Star(Ws),
        Opt(Cat(<< Lit(<< 118 >>), Dig >>)) >>) >>), Star(Ws),
        Opt(Alt(<< Lit(<< 101, 110, 100 >>), Lit(<< 102, 105, 110, 97,
        108 >>), Lit(<< 111, 97, 100 >>) >>)),
        Star(Not((97..122) \cup (48..57))), Eol >>)

\* find_episode: the suffix with the word ep
R2 ==
    Cat(<< Alt(<< Bol, Not((97..122) \cup (48..57)) >>), Lit(<< 101, 112 >>),
        Opt(Alt(<< Lit(<< 46 >>), Cat(<< Lit(<< 105, 115, 111, 100, 101 >>),
        Opt(Lit(<< 115 >>)) >>) >>)), Star(Ws), Plus(Dig),
        Opt(Cat(<< Star(Ws), Alt(<< Lit(<< 126 >>), Lit(<< 45 >>) >>),
        Star(Ws), Plus(Dig) >>)), Star(Ws), Opt(Alt(<< Lit(<< 101, 110,
        100 >>), Lit(<< 102, 105, 110, 97, 108 >>), Lit(<< 111, 97,
        100 >>) >>)), Star(Not((97..122) \cup (48..57))), Eol >>)

\* find_episode: a block that is only a number or a range
R3 ==
    Cat(<< Bol, Star(Not((97..122) \cup (48..57))), Plus(Dig),
        Opt(Cat(<< Star(Ws), Lit(<< 45 >>), Star(Ws), Plus(Dig) >>)),
        Star(Not((97..122) \cup (48..57))), Eol >>)


(***************************************************************************)
(* The title analyzer (title_analyzer.rs) on the text of a title.          *)
(***************************************************************************)
\* `let x = value;`: the value is computed once and then used as x
With(value, F(_)) == F(value)

\* str::parse of a run of digits
RECURSIVE ParseNum(_)
ParseNum(digits) ==
    IF digits = << >> THEN 0 ELSE ParseNum(Front(digits)) * 10 + (Last(digits) - 48)

\* String::drain(start..end), byte offsets
Drain(s, start, end) == SubSeq(s, 1, start) \o SubSeq(s, end + 1, Len(s))

NotFound == [found |-> FALSE, start |-> 0, end |-> 0, val |-> 0]

\* find_year on text
FindYear(s) ==
    With(Captures(YEAR, s), LAMBDA ca :
        IF ~ca.found THEN NotFound
        ELSE [found |-> TRUE, start |-> ca.start, end |-> ca.end,
              val |-> ParseNum(SubSeq(s, ca.start + 2, ca.end - 1))])

\* find_format on text (the format itself is not used by search)
FindFormat(s) ==
    With(Captures(FORMAT, s), LAMBDA ca :
        IF ~ca.found THEN NotFound
        ELSE [found |-> TRUE, start |-> ca.start, end |-> ca.end, val |-> 0])

\* The loop of find_season: the search is repeated on s[start + 1..] as long
\* as it matches; `base` is the offset in s of the text `ca` was found in
RECURSIVE SeasonLoop(_, _, _, _)
SeasonLoop(s, ca, start, base) ==
    With(Captures(SEASON, SubSeq(s, start + ca.start + 2, Len(s))), LAMBDA ca2 :
        IF ca2.found THEN SeasonLoop(s, ca2, start + ca.start + 1, start + ca.start + 1)
        ELSE [ca |-> ca, start |-> start + ca.start, base |-> base])

\* find_season on text
\* The end of find_season: r is the last match, where it starts in s and
\* where the text it was found in starts
SeasonOf(s, r) ==
    LET end == r.start + (r.ca.end - r.ca.start)
        Text(g) == SubSeq(s, r.base + g.start + 1, r.base + g.end)
        num == Named(r.ca, "season1") \o Named(r.ca, "season2") \o Named(r.ca, "season3")
        word == Named(r.ca, "season4")
    IN  IF num # << >>
        THEN [found |-> TRUE, start |-> r.start, end |-> end, val |-> ParseNum(Text(num[1]))]
        ELSE IF word # << >>
        THEN [found |-> TRUE, start |-> r.start, end |-> end,
              val |-> IF Text(word[1]) = << 102, 105, 114, 115, 116 >> THEN 1
                      ELSE IF Text(word[1]) = << 115, 101, 99, 111, 110, 100 >> THEN 2
                      ELSE 3]
        ELSE NotFound

FindSeason(s) ==
    With(Captures(SEASON, s), LAMBDA ca0 :
        IF ~ca0.found THEN NotFound ELSE SeasonOf(s, SeasonLoop(s, ca0, 0, 0)))

\* is_relevant
is_relevant(s) == \E i \in 1..Len(s) : IsLowerAlnum(s[i])

\* Block::new(pos)
NewBlock(pos) == [pos |-> pos, delimiter |-> 0, start |-> 0, val |-> << >>]

\* push_block!(stop) of parse_blocks
PushBlock(st, title, stop) ==
    IF st.block.start < stop
    THEN [st EXCEPT !.blocks = Append(@, [st.block EXCEPT
                                             !.val = SubSeq(title, st.block.start + 1, stop)]),
                    !.pos = @ + 1,
                    !.block = [NewBlock(st.pos + 1) EXCEPT !.start = stop]]
    ELSE st

\* opening_pair
opening_pair(c) == IF c = 93 THEN 91 ELSE 40

\* The body of `for (pos, c) in title.char_indices()` for the byte at offset pos
BlockStep(st, title, pos) ==
    LET c == title[pos + 1]
    IN  IF c \in {91, 40}
        THEN LET st1 == IF st.block.delimiter = 0
                        THEN [PushBlock(st, title, pos) EXCEPT !.block.delimiter = c]
                        ELSE st
             IN  IF st1.block.delimiter = c
                 THEN [st1 EXCEPT !.paren_depth = @ + 1] ELSE st1
        ELSE IF c \in {93, 41} /\ st.block.delimiter = opening_pair(c)
        THEN LET st1 == [st EXCEPT !.paren_depth = @ - 1]
             IN  IF st1.paren_depth = 0 THEN PushBlock(st1, title, pos + 1) ELSE st1
        ELSE st

RECURSIVE BlockLoop(_, _, _)
BlockLoop(st, title, pos) ==
    IF pos >= Len(title) THEN st ELSE BlockLoop(BlockStep(st, title, pos), title, pos + 1)

\* parse_blocks
parse_blocks(title) ==
    LET st0 == [blocks |-> << >>, pos |-> 0, block |-> NewBlock(0), paren_depth |-> 0]
        st1 == BlockLoop(st0, title, 0)
        st2 == IF st1.blocks # << >> /\ Last(st1.blocks).delimiter = 0
               THEN [st1 EXCEPT !.blocks = Front(@), !.block = Last(st1.blocks)]
               ELSE st1
        blocks == PushBlock(st2, title, Len(title)).blocks
        Relevant(b) == is_relevant(b.val)
    IN  SelectSeq(blocks, Relevant)

\* The body of `for block in blocks.iter()` of find_name_range; ca is
\* FILE_INFO.captures(block.val), next tells whether the loop goes on
NameRangeStep(block, ca, matched, last_len) ==
    LET keep == ca.start > 0 /\ block.delimiter = 0
        matched1 == IF keep THEN Append(matched, block) ELSE matched
        last_len1 == IF keep THEN << ca.start >> ELSE last_len
    IN  IF matched = << >> /\ block.delimiter # 0
        THEN [next |-> TRUE, matched |-> matched, last_len |-> last_len]
        ELSE IF ca.found
        THEN [next |-> matched1 = << >>, matched |-> matched1, last_len |-> last_len1]
        ELSE [next |-> TRUE, matched |-> Append(matched, block), last_len |-> last_len]

\* The loop of find_name_range from block n on
RECURSIVE NameRangeLoop(_, _, _)
NameRangeLoop(blocks, n, r) ==
    IF n > Len(blocks) \/ ~r.next THEN r
    ELSE NameRangeLoop(blocks, n + 1,
             NameRangeStep(blocks[n], Captures(FILE_INFO, blocks[n].val),
                           r.matched, r.last_len))

\* `while let Some(last) = matched.last()`: trailing [..] blocks are popped
RECURSIVE PopBrackets(_)
PopBrackets(matched) ==
    IF matched # << >> /\ Last(matched).delimiter = 91
    THEN PopBrackets(Front(matched)) ELSE matched

\* find_name_range
find_name_range(blocks) ==
    With(NameRangeLoop(blocks, 1, [next |-> TRUE, matched |-> << >>, last_len |-> << >>]),
         LAMBDA r :
        LET matched == PopBrackets(r.matched)
            n == Len(matched)
        IN  IF matched = << >> THEN matched
            ELSE [matched EXCEPT ![n].val =
                     IF r.last_len = << >> THEN @
                     ELSE SubSeq(@, 1, r.last_len[1])])

NoEpisode == [found |-> FALSE, block_idx |-> 0, pos |-> 0, season |-> << >>, plain |-> FALSE]

\* `for i in &[&*R1, &*R2, &*R3]` on one block: the first that matches
RECURSIVE EpisodeIn(_, _)
EpisodeIn(regexes, val) ==
    IF regexes = << >> THEN NoMatch
    ELSE With(Captures(regexes[1], val), LAMBDA ca :
             IF ca.found THEN ca ELSE EpisodeIn(Tail(regexes), val))

\* find_episode: the blocks are tried from the last to the first
RECURSIVE find_episode_from(_, _)
find_episode_from(blocks, n) ==
    IF n = 0 THEN NoEpisode
    ELSE With(EpisodeIn(<< R1, R2, R3 >>, blocks[n].val), LAMBDA ca :
             LET season == Named(ca, "season")
             IN  IF ca.found
                 THEN [found |-> TRUE, block_idx |-> n - 1, pos |-> ca.start,
                       season |-> IF season = << >> THEN << >>
                                  ELSE << ParseNum(SubSeq(blocks[n].val,
                                              season[1].start + 1, season[1].end)) >>,
                       plain |-> Named(ca, "plain") # << >>]
                 ELSE find_episode_from(blocks, n - 1))

find_episode(blocks) == find_episode_from(blocks, Len(blocks))

\* truncate_blocks
truncate_blocks(blocks, ep) ==
    IF ~ep.found THEN blocks
    ELSE LET block == blocks[ep.block_idx + 1]
             last == [block EXCEPT !.val = SubSeq(@, 1, ep.pos)]
             before == SubSeq(blocks, 1, ep.block_idx)
         IN  IF block.delimiter # 0 THEN before
             ELSE IF ~is_relevant(last.val) THEN before
             ELSE Append(before, last)

\* blocks_to_string
blocks_to_string(s, blocks) ==
    SubSeq(s, blocks[1].start + 1, Last(blocks).start + Len(Last(blocks).val))

\* One use of the macro e! of extract_title_metadata: the title after the
\* drain and the value, taken from the original title when the title has none
Extract(found, original, title) ==
    IF found.found
    THEN [title |-> Drain(title, found.start, found.end), val |-> << found.val >>]
    ELSE [title |-> title, val |-> IF original.found THEN << original.val >> ELSE << >>]

\* extract_title_metadata: season, then year, then format
extract_title_metadata(original_title, pre_episode_title) ==
    With(Extract(FindSeason(pre_episode_title), FindSeason(original_title),
                 pre_episode_title), LAMBDA s :
    With(Extract(FindYear(s.title), FindYear(original_title), s.title), LAMBDA y :
    With(Extract(FindFormat(y.title), FindFormat(original_title), y.title), LAMBDA f :
        [title |-> f.title, metadata |-> [season |-> s.val, year |-> y.val]])))

\* handle_pre_episode_range: the searches it makes, in order, each made only
\* when the ones before it failed
PreEpisodeSearches(normalized_title, pre_episode_range, season) ==
    IF pre_episode_range = << >> THEN << >>
    ELSE With(extract_title_metadata(normalized_title,
                  blocks_to_string(normalized_title, pre_episode_range)), LAMBDA x :
         LET metadata == IF season # << >> THEN [x.metadata EXCEPT !.season = season]
                         ELSE x.metadata
             bars == { i \in 1..Len(x.title) : x.title[i] = 124 }
             n == Len(pre_episode_range)
         IN  << [step |-> "full", title |-> x.title, metadata |-> metadata] >>
             \o (IF bars = {} THEN << >>
                 ELSE << [step |-> "bar",
                          title |-> SubSeq(x.title, 1,
                                       (CHOOSE i \in bars : \A j \in bars : i <= j) - 1),
                          metadata |-> metadata] >>)
             \o (IF n > 1 /\ pre_episode_range[n].delimiter # 0
                 THEN << [step |-> "shorter",
                          title |-> extract_title_metadata(normalized_title,
                                        blocks_to_string(normalized_title,
                                            SubSeq(pre_episode_range, 1, n - 1))).title,
                          metadata |-> metadata] >>
                 ELSE << >>))

\* The searches of one call of handle_pre_episode_range, marked with the
\* call they belong to: 1 is the call of find_show on the pre-episode range,
\* 2 the call on the name range
InCall(searches, call) ==
    [i \in 1..Len(searches) |->
        [call |-> call, step |-> searches[i].step, title |-> searches[i].title,
         metadata |-> searches[i].metadata]]

\* The two calls of handle_pre_episode_range in find_show; ranges[call] is
\* the range of the call, the second is there only with plain_digits
RECURSIVE RangeSearches(_, _, _, _)
RangeSearches(normalized_title, ranges, season, call) ==
    IF call > Len(ranges) THEN << >>
    ELSE InCall(PreEpisodeSearches(normalized_title, ranges[call], season), call)
         \o RangeSearches(normalized_title, ranges, season, call + 1)

\* What a range is to handle_pre_episode_range
RangeFacts(ranges) ==
    [call \in 1..Len(ranges) |->
        [blocks |-> Len(ranges[call]),
         delimited |-> ranges[call] # << >> /\ Last(ranges[call]).delimiter # 0]]

\* The ranges find_show hands to handle_pre_episode_range while the searches
\* fail: the pre-episode range, and with plain_digits the name range after it
NameRanges_ignores_plain_digits(name_range, ep) ==
    << truncate_blocks(name_range, ep), name_range >>

NameRanges(name_range, ep) ==
    << truncate_blocks(name_range, ep) >> \o (IF ep.plain THEN << name_range >> ELSE << >>)

NoAnalysis == [name_range |-> 0, plain |-> FALSE, ranges |-> << >>, searches |-> << >>]

\* find_show up to its searches: the length of the name range, the flag
\* plain_digits, the ranges handle_pre_episode_range is called with and the
\* searches find_show makes on the database, in order, as long as they fail
ShowAnalysis(title) ==
    With(normalize_title(title, find_separator(title)), LAMBDA normalized_title :
    With(find_name_range(parse_blocks(normalized_title)), LAMBDA name_range :
    With(find_episode(name_range), LAMBDA ep :
        IF name_range = << >> THEN NoAnalysis
        ELSE With(NameRanges(name_range, ep), LAMBDA ranges :
                 [name_range |-> Len(name_range), plain |-> ep.plain,
                  ranges |-> RangeFacts(ranges),
                  searches |-> RangeSearches(normalized_title, ranges, ep.season, 1)]))))

ShowSearches(title) == ShowAnalysis(title).searches

\* The searches made until one succeeds, each with its outcome
RECURSIVE Lookups(_, _)
Lookups(db, searches) ==
    IF searches = << >> THEN << >>
    ELSE With(search(db, searches[1].title, searches[1].metadata), LAMBDA r :
             << [search |-> searches[1], res |-> r] >>
             \o (IF r.ok THEN << >> ELSE Lookups(db, Tail(searches))))

\* The result of the first search that succeeds, else an error
FirstOk(db, searches) ==
    With(Lookups(db, searches), LAMBDA made :
        IF made # << >> /\ Last(made).res.ok THEN Last(made).res ELSE NoResult)

\* find_show
find_show(db, title) == FirstOk(db, ShowSearches(title))

\* "[Group] {romaji} - 01 [720p].mkv"
RoundTitle(romaji) ==
    << 91, 71, 114, 111, 117, 112, 93, 32 >> \o romaji
    \o << 32, 45, 32, 48, 49, 32, 91, 55, 50, 48, 112, 93, 46, 109, 107, 118 >>

\* The names of the round trip: "a", "A", "b", "ab", "a b", "a(2020)",
\* "a season 2", "a 02", "(a)b", "(2020)", "a 100"
RomajiInputs ==
    { << 97 >>, << 65 >>, << 98 >>, << 97, 98 >>, << 97, 32, 98 >>, << 97, 2020 >>,
      << 97, 32, 402 >>, << 97, 32, 48, 50 >>, << 40, 97, 41, 98 >>, << 2020 >>,
      << 97, 32, 49, 48, 48 >> }

MaxRows == 2

\* The titles find_show is called with apart from those of the names:
\* "[G] a|b - 01.mkv", "[G] a (b) - 01.mkv", "[G] a 100 [720p].mkv",
\* "[G] a|b (b) 100.mkv", "[G].mkv"
ShowTitles ==
    { << 91, 71, 93, 32, 97, 124, 98, 32, 45, 32, 48, 49, 46, 109, 107, 118 >>,
      << 91, 71, 93, 32, 97, 32, 40, 98, 41, 32, 45, 32, 48, 49, 46, 109, 107, 118 >>,
      << 91, 71, 93, 32, 97, 32, 49, 48, 48, 32, 91, 55, 50, 48, 112, 93, 46, 109, 107, 118 >>,
      << 91, 71, 93, 32, 97, 124, 98, 32, 40, 98, 41, 32, 49, 48, 48, 46, 109, 107, 118 >>,
      << 91, 71, 93, 46, 109, 107, 118 >> }

\* What find_show makes of the title of every name and of every other title
RoundAnalysis ==
    [title \in { RoundTitle(NameText(name)) : name \in RomajiInputs } \cup ShowTitles |->
        ShowAnalysis(title)]

RoundSearches == [name \in RomajiInputs |-> RoundAnalysis[RoundTitle(NameText(name))].searches]

RoundInit ==
    /\ r_pc = "input"
    /\ r_shows \in [DbShowIdxs -> LoadedShows]
    /\ r_names = << >>
    /\ r_db = NoDb
    /\ r_romaji = 0
    /\ r_res = NoResult
    /\ r_an = NoAnalysis
    /\ r_log = << >>

RoundIdle ==
    /\ r_pc = "idle"
    /\ r_shows = << >>
    /\ r_names = << >>
    /\ r_db = NoDb
    /\ r_romaji = 0
    /\ r_res = NoResult
    /\ r_an = NoAnalysis
    /\ r_log = << >>

\* load_names returns one more row (rows are ordered by show)
LoadName(show_idx, name) ==
    /\ r_pc = "input"
    /\ Len(r_names) < MaxRows
    /\ r_names # << >> => Last(r_names).show <= show_idx
    /\ r_names' = Append(r_names, [show |-> show_idx, name |-> name])
    /\ UNCHANGED << r_pc, r_shows, r_db, r_romaji, r_res, r_an, r_log >>
    /\ UNCHANGED notRound

\* build_db; the map is iterated in one of the orders a HashMap allows
BuildRoundDb ==
    /\ r_pc = "input"
    /\ r_names # << >>
    /\ r_pc' = "built"
    /\ \E order \in IterOrders(DOMAIN NamesMap(NamesLoop(r_shows, r_names, 1, << >>).ranges)) :
          r_db' = build_db(r_shows, r_names, order)
    /\ UNCHANGED << r_shows, r_names, r_romaji, r_res, r_an, r_log >>
    /\ UNCHANGED notRound

\* find_show(db, "[Group] {romaji} - 01 [720p].mkv") for the name of row k
FindShow(k) ==
    /\ r_pc = "built"
    /\ k <= Len(r_names)
    /\ r_pc' = "found"
    /\ r_romaji' = k
    /\ r_res' = FirstOk(r_db, RoundSearches[r_names[k].name])
    /\ r_an' = [RoundAnalysis[RoundTitle(NameText(r_names[k].name))] EXCEPT !.searches = << >>]
    /\ r_log' = Lookups(r_db, RoundSearches[r_names[k].name])
    /\ UNCHANGED << r_shows, r_names, r_db >>
    /\ UNCHANGED notRound

\* find_show(db, title) for another title
FindTitle(title) ==
    /\ r_pc = "built"
    /\ r_pc' = "looked"
    /\ r_res' = FirstOk(r_db, RoundAnalysis[title].searches)
    /\ r_an' = [RoundAnalysis[title] EXCEPT !.searches = << >>]
    /\ r_log' = Lookups(r_db, RoundAnalysis[title].searches)
    /\ UNCHANGED << r_shows, r_names, r_db, r_romaji >>
    /\ UNCHANGED notRound

RoundNext ==
    \/ \E show_idx \in DbShowIdxs, name \in RomajiInputs : LoadName(show_idx, name)
    \/ BuildRoundDb
    \/ \E k \in 1..MaxRows : FindShow(k)
    \/ \E title \in ShowTitles : FindTitle(title)

(***************************************************************************)
(* find_season (show_db.rs) on strings put together from pieces            *)
(***************************************************************************)
MaxPieces == 3

\* "1", "2", "th season", "season ", "s", " ", "a", "s2 "
SeasonPieces ==
    { << 49 >>, << 50 >>, << 116, 104, 32, 115, 101, 97, 115, 111, 110 >>,
      << 115, 101, 97, 115, 111, 110, 32 >>, << 115 >>, << 32 >>, << 97 >>,
      << 115, 50, 32 >> }

RECURSIVE Concat(_)
Concat(pieces) == IF pieces = << >> THEN << >> ELSE pieces[1] \o Concat(Tail(pieces))

SeasonInit ==
    /\ e_pc = "input"
    /\ e_pieces = << >>
    /\ e_res = NotFound

SeasonIdle ==
    /\ e_pc = "idle"
    /\ e_pieces = << >>
    /\ e_res = NotFound

\* The caller's string grows by one piece
AddPiece(piece) ==
    /\ e_pc = "input"
    /\ Len(e_pieces) < MaxPieces
    /\ e_pieces' = Append(e_pieces, piece)
    /\ UNCHANGED << e_pc, e_res >>
    /\ UNCHANGED notSeason

\* find_season(s)
CallFindSeason ==
    /\ e_pc = "input"
    /\ e_pc' = "done"
    /\ e_res' = FindSeason(Concat(e_pieces))
    /\ UNCHANGED e_pieces
    /\ UNCHANGED notSeason

SeasonNext ==
    \/ \E piece \in SeasonPieces : AddPiece(piece)
    \/ CallFindSeason

(***************************************************************************)
(* load_shows_page (anilist/shows.rs): one page of upstream records is     *)
(* compared with the shows loaded before and the difference is written in  *)
(* one transaction.  An Option is a sequence of length 0 or 1.  The names  *)
(* are ASCII, which nfc() leaves as they are.                              *)
(***************************************************************************)
MaxMedia == 2

\* Format::from_anilist, with the formats as their database constants
FormatFromAnilist(n) ==
    CASE n = "TV" -> [ok |-> TRUE, val |-> 1]
      [] n = "TV_SHORT" -> [ok |-> TRUE, val |-> 2]
      [] n = "MOVIE" -> [ok |-> TRUE, val |-> 3]
      [] n = "SPECIAL" -> [ok |-> TRUE, val |-> 4]
      [] n = "OVA" -> [ok |-> TRUE, val |-> 5]
      [] n = "ONA" -> [ok |-> TRUE, val |-> 6]
      [] OTHER -> [ok |-> FALSE, val |-> 0]

\* Season::from_anilist_str
SeasonFromAnilist(s) ==
    CASE s = "WINTER" -> [ok |-> TRUE, val |-> "Winter"]
      [] s = "SPRING" -> [ok |-> TRUE, val |-> "Spring"]
      [] s = "SUMMER" -> [ok |-> TRUE, val |-> "Summer"]
      [] s = "FALL" -> [ok |-> TRUE, val |-> "Fall"]
      [] OTHER -> [ok |-> FALSE, val |-> ""]

\* The upstream records (struct Media): every format and season for the
\* name "a", and for a TV show without season the names
MediaInputs ==
    [id : {1, 2}, format : {"TV", "MOVIE", "XX"}, season_year : {<< >>, << 2020 >>},
     season : {<< >>, << "FALL" >>, << "XX" >>}, romaji : {"a"}, english : {<< >>}]
    \cup [id : {1, 2}, format : {"TV"}, season_year : {<< >>}, season : {<< >>},
          romaji : {"a", "b"}, english : {<< >>, << "a" >>}]

\* The stores a refresh can start from: no show, or show 1 for the anilist
\* id 1, a TV show without season with the romaji name "a"
PageStores ==
    { [shows |-> << >>, names |-> << >>],
      [shows |-> << [anilist_id |-> 1, format |-> 1, season |-> << >>] >>,
       names |-> << [show_id |-> 1, type |-> "ROMAJI", name |-> "a"] >>] }

\* load_shows_from_db: the shows by anilist id, each with its names
LoadShowsFromDb(shows, names) ==
    [id \in { shows[k].anilist_id : k \in 1..Len(shows) } |->
        LET show_id == CHOOSE k \in 1..Len(shows) : shows[k].anilist_id = id
            ids == { k \in 1..Len(names) : names[k].show_id = show_id }
        IN  [show_id |-> show_id, format |-> shows[show_id].format,
             season |-> shows[show_id].season,
             names |-> { [show_name_id |-> k, name |-> names[k].name,
                          type |-> names[k].type] : k \in ids }]]

PageInit ==
    /\ g_pc = "request"
    /\ \E store \in PageStores :
        /\ g_shows = store.shows
        /\ g_names = store.names
        /\ g_existing = LoadShowsFromDb(store.shows, store.names)
    /\ g_media = << >>
    /\ g_i = 1
    /\ g_tshows = g_shows
    /\ g_tnames = g_names
    /\ g_wrote = << >>

PageIdle ==
    /\ g_pc = "idle"
    /\ g_shows = << >>
    /\ g_names = << >>
    /\ g_existing = << >>
    /\ g_media = << >>
    /\ g_i = 1
    /\ g_tshows = << >>
    /\ g_tnames = << >>
    /\ g_wrote = << >>

\* `let format = match Format::from_anilist(&x.format)`
ParsedFormat(x) == FormatFromAnilist(x.format)

\* Mutant of ParsedSeason: a season that is not known counts as no season
ParsedSeason_error_is_none(x) ==
    IF x.season_year # << >> /\ x.season # << >> /\ SeasonFromAnilist(x.season[1]).ok
    THEN [ok |-> TRUE,
          val |-> << [year |-> x.season_year[1], season |-> SeasonFromAnilist(x.season[1]).val] >>]
    ELSE [ok |-> TRUE, val |-> << >>]

\* `let season = match (x.season_year, &x.season)`: parsed only if both are
\* there, else None
ParsedSeason(x) ==
    IF x.season_year # << >> /\ x.season # << >>
    THEN LET season == SeasonFromAnilist(x.season[1])
         IN  IF season.ok
             THEN [ok |-> TRUE, val |-> << [year |-> x.season_year[1], season |-> season.val] >>]
             ELSE [ok |-> FALSE, val |-> << >>]
    ELSE [ok |-> TRUE, val |-> << >>]

\* `names`: the english name if it is there and differs, then the romaji name
MediaNames(x) ==
    (IF x.english # << >> /\ x.english[1] # x.romaji
     THEN << [type |-> "ENGLISH", name |-> x.english[1]] >> ELSE << >>)
    \o << [type |-> "ROMAJI", name |-> x.romaji] >>

\* `for name in names` for an existing show: the name of that type is
\* updated if it differs, a name of a new type is inserted
RECURSIVE UpdateNames(_, _, _, _)
UpdateNames(tnames, existing, names, n) ==
    IF n = 0 THEN [names |-> tnames, wrote |-> FALSE]
    ELSE LET r == UpdateNames(tnames, existing, names, n - 1)
             name == names[n]
             olds == { e \in existing.names : e.type = name.type }
         IN  IF olds = {}
             THEN [names |-> Append(r.names, [show_id |-> existing.show_id,
                                              type |-> name.type, name |-> name.name]),
                   wrote |-> TRUE]
             ELSE LET old == CHOOSE e \in olds : TRUE
                  IN  IF name.name # old.name
                      THEN [names |-> [r.names EXCEPT ![old.show_name_id].name = name.name],
                            wrote |-> TRUE]
                      ELSE r

\* `if let Some(existing) = existing.get(&x.id)`: the statements for a show
\* that is there
UpdateShow(tshows, tnames, existing, format, season, names) ==
    LET updated == UpdateNames(tnames, existing, names, Len(names))
    IN  [shows |-> [tshows EXCEPT ![existing.show_id] =
                       [@ EXCEPT !.format = format, !.season = season]],
         names |-> updated.names,
         wrote |-> existing.format # format \/ existing.season # season \/ updated.wrote]

\* `insert into magnets.show .. returning show_id` and the insert of every name
InsertShow(tshows, tnames, id, format, season, names) ==
    [shows |-> Append(tshows, [anilist_id |-> id, format |-> format, season |-> season]),
     names |-> tnames \o [k \in 1..Len(names) |->
                             [show_id |-> Len(tshows) + 1, type |-> names[k].type,
                              name |-> names[k].name]],
     wrote |-> TRUE]

\* One turn of `for x in &data.page.media` on the tables of the transaction
MediaStep(tshows, tnames, existing, x) ==
    IF ~ParsedFormat(x).ok \/ ~ParsedSeason(x).ok
    THEN [shows |-> tshows, names |-> tnames, wrote |-> FALSE]
    ELSE IF x.id \in DOMAIN existing
         THEN UpdateShow(tshows, tnames, existing[x.id], ParsedFormat(x).val,
                         ParsedSeason(x).val, MediaNames(x))
         ELSE InsertShow(tshows, tnames, x.id, ParsedFormat(x).val,
                         ParsedSeason(x).val, MediaNames(x))

\* The page upstream holds one more record
UpstreamRecord(x) ==
    /\ g_pc = "request"
    /\ Len(g_media) < MaxMedia
    /\ g_media' = Append(g_media, x)
    /\ UNCHANGED << g_pc, g_shows, g_names, g_existing, g_i, g_tshows, g_tnames, g_wrote >>
    /\ UNCHANGED notPage

\* client.request returns the page, pg::transaction opens the transaction
RequestPage ==
    /\ g_pc = "request"
    /\ g_pc' = "loop"
    /\ g_tshows' = g_shows
    /\ g_tnames' = g_names
    /\ UNCHANGED << g_shows, g_names, g_existing, g_media, g_i, g_wrote >>
    /\ UNCHANGED notPage

\* One turn of the loop without a store error
MediaTurn ==
    /\ g_pc = "loop"
    /\ g_i <= Len(g_media)
    /\ LET r == MediaStep(g_tshows, g_tnames, g_existing, g_media[g_i])
       IN  /\ g_tshows' = r.shows
           /\ g_tnames' = r.names
           /\ g_wrote' = Append(g_wrote, r.wrote)
    /\ g_i' = g_i + 1
    /\ UNCHANGED << g_pc, g_shows, g_names, g_existing, g_media >>
    /\ UNCHANGED notPage

\* A statement of the turn, or the commit, fails: `?` returns and the
\* transaction is rolled back
PageFail ==
    /\ g_pc = "loop"
    /\ \/ g_i > Len(g_media)
       \/ /\ g_i <= Len(g_media)
          /\ MediaStep(g_tshows, g_tnames, g_existing, g_media[g_i]).wrote
    /\ g_pc' = "failed"
    /\ g_tshows' = g_shows
    /\ g_tnames' = g_names
    /\ UNCHANGED << g_shows, g_names, g_existing, g_media, g_i, g_wrote >>
    /\ UNCHANGED notPage

\* tran.commit()
PageCommit ==
    /\ g_pc = "loop"
    /\ g_i > Len(g_media)
    /\ g_pc' = "done"
    /\ g_shows' = g_tshows
    /\ g_names' = g_tnames
    /\ UNCHANGED << g_existing, g_media, g_i, g_tshows, g_tnames, g_wrote >>
    /\ UNCHANGED notPage

PageNext ==
    \/ \E x \in MediaInputs : UpstreamRecord(x)
    \/ RequestPage
    \/ MediaTurn
    \/ PageFail
    \/ PageCommit

(***************************************************************************)
(* DbWatcher and WatchMessageHandler (db_state.rs) with the connection of  *)
(* the processor's holder (connect_with_handler and client, pg.rs).  Every *)
(* notifier has one task: load_torrents, match_unmatched and the two       *)
(* Scheduled loops wait on notified() and read their state row after it.   *)
(* Notify::notify wakes the task at notified() or leaves one permit for    *)
(* its next notified().                                                    *)
(***************************************************************************)

\* The fields of DbWatcher (`w!`)
Notifiers == { "max_nyaa_si_id", "rematch_unmatched", "last_shows_update",
               "last_schedule_update" }

\* The payloads of a notification on state_change: the rows of `states!`
\* and a text that names none
Payloads == Notifiers \cup { "initial_setup", "other" }

WatchInit ==
    /\ w_con = "down"
    /\ w_permit = [k \in Notifiers |-> FALSE]
    /\ w_pc = [k \in Notifiers |-> "read"]
    /\ w_last = ""

WatchIdle ==
    /\ w_con = "idle"
    /\ w_permit = << >>
    /\ w_pc = << >>
    /\ w_last = ""

\* Mutant of notify_all: the notifier of the shows is left out
notify_all_but_one(permit) == [permit EXCEPT !["max_nyaa_si_id"] = TRUE,
                                             !["rematch_unmatched"] = TRUE,
                                             !["last_schedule_update"] = TRUE]

\* DbWatcher::notify_all: notify() on every field
notify_all(permit) == [k \in DOMAIN permit |-> TRUE]

\* DbWatcher::handle_str: notify() on the field named, nothing for another text
handle_str(permit, s) == IF s \in DOMAIN permit THEN [permit EXCEPT ![s] = TRUE] ELSE permit

\* connect_with_handler: tokio_postgres connect returns; Ok spawns
\* drive_connection, Err leaves connect (keep_connected tries again later)
Connect(ok) ==
    /\ w_con = "down"
    /\ w_con' = IF ok THEN "connected" ELSE "down"
    /\ w_last' = ""
    /\ UNCHANGED << w_permit, w_pc >>
    /\ UNCHANGED notWatch

\* WatchMessageHandler::listen: `listen state_change`, then notify_all; a
\* failed query returns the error and the client is dropped
Listen(ok) ==
    /\ w_con = "connected"
    /\ IF ok
       THEN /\ w_con' = "listened"
            /\ w_permit' = notify_all(w_permit)
       ELSE /\ w_con' = "down"
            /\ UNCHANGED w_permit
    /\ w_last' = ""
    /\ UNCHANGED w_pc
    /\ UNCHANGED notWatch

\* client: T::from_client returns; Ok lets connect store the connection
FromClient(ok) ==
    /\ w_con = "listened"
    /\ w_con' = IF ok THEN "up" ELSE "down"
    /\ w_last' = ""
    /\ UNCHANGED << w_permit, w_pc >>
    /\ UNCHANGED notWatch

\* The connection ends
ConnectionLost ==
    /\ w_con = "up"
    /\ w_con' = "down"
    /\ w_last' = ""
    /\ UNCHANGED << w_permit, w_pc >>
    /\ UNCHANGED notWatch

\* drive_connection hands a notification on state_change to handle
Handle(payload) ==
    /\ w_con \in { "listened", "up" }
    /\ w_permit' = handle_str(w_permit, payload)
    /\ w_last' = payload
    /\ UNCHANGED << w_con, w_pc >>
    /\ UNCHANGED notWatch

\* notified() completes for the task of the notifier and takes the permit
Notified(k) ==
    /\ w_pc[k] = "wait"
    /\ w_permit[k]
    /\ w_permit' = [w_permit EXCEPT ![k] = FALSE]
    /\ w_pc' = [w_pc EXCEPT ![k] = "read"]
    /\ w_last' = ""
    /\ UNCHANGED w_con
    /\ UNCHANGED notWatch

\* The task stops waiting without a notification (the timeout of
\* load_torrents, the sleep of Scheduled::wait_ and the work after it);
\* timeout and select poll notified() first, which is ready with a permit
WaitOver(k) ==
    /\ k \in { "max_nyaa_si_id", "last_shows_update", "last_schedule_update" }
    /\ w_pc[k] = "wait"
    /\ ~w_permit[k]
    /\ w_pc' = [w_pc EXCEPT ![k] = "read"]
    /\ w_last' = ""
    /\ UNCHANGED << w_con, w_permit >>
    /\ UNCHANGED notWatch

\* The task queries its state row and goes on to its next notified()
ReadRow(k) ==
    /\ w_pc[k] = "read"
    /\ w_pc' = [w_pc EXCEPT ![k] = "wait"]
    /\ w_last' = ""
    /\ UNCHANGED << w_con, w_permit >>
    /\ UNCHANGED notWatch

WatchNext ==
    \/ \E ok \in BOOLEAN : Connect(ok)
    \/ \E ok \in BOOLEAN : Listen(ok)
    \/ \E ok \in BOOLEAN : FromClient(ok)
    \/ ConnectionLost
    \/ \E payload \in Payloads : Handle(payload)
    \/ \E k \in Notifiers : Notified(k)
    \/ \E k \in Notifiers : WaitOver(k)
    \/ \E k \in Notifiers : ReadRow(k)

(***************************************************************************)
(* Specifications                                                          *)
(***************************************************************************)
InitHeap == HeapInit /\ ClientIdle /\ SchedIdle /\ ShowDbIdle /\ PgIdle /\ SearchIdle /\ DbIdle /\ NormIdle /\ NyaaIdle /\ MatchIdle /\ RoundIdle /\ SeasonIdle /\ PageIdle /\ WatchIdle

SpecHeap == InitHeap /\ [][HeapNext]_vars

InitClient == ClientInit /\ HeapIdle /\ SchedIdle /\ ShowDbIdle /\ PgIdle /\ SearchIdle /\ DbIdle /\ NormIdle /\ NyaaIdle /\ MatchIdle /\ RoundIdle /\ SeasonIdle /\ PageIdle /\ WatchIdle

SpecClient == InitClient /\ [][ClientNext]_vars

InitSched == SchedInit /\ HeapIdle /\ ClientIdle /\ ShowDbIdle /\ PgIdle /\ SearchIdle /\ DbIdle /\ NormIdle /\ NyaaIdle /\ MatchIdle /\ RoundIdle /\ SeasonIdle /\ PageIdle /\ WatchIdle

SpecSched == InitSched /\ [][SchedNext]_vars

InitShowDb == ShowDbInit /\ HeapIdle /\ ClientIdle /\ SchedIdle /\ PgIdle /\ SearchIdle /\ DbIdle /\ NormIdle /\ NyaaIdle /\ MatchIdle /\ RoundIdle /\ SeasonIdle /\ PageIdle /\ WatchIdle

SpecShowDb == InitShowDb /\ [][ShowDbNext]_vars

InitPg == PgInit /\ HeapIdle /\ ClientIdle /\ SchedIdle /\ ShowDbIdle /\ SearchIdle /\ DbIdle /\ NormIdle /\ NyaaIdle /\ MatchIdle /\ RoundIdle /\ SeasonIdle /\ PageIdle /\ WatchIdle

SpecPg == InitPg /\ [][PgNext]_vars

InitSearch == SearchInit /\ HeapIdle /\ ClientIdle /\ SchedIdle /\ ShowDbIdle /\ PgIdle /\ DbIdle /\ NormIdle /\ NyaaIdle /\ MatchIdle /\ RoundIdle /\ SeasonIdle /\ PageIdle /\ WatchIdle

SpecSearch == InitSearch /\ [][SearchNext]_vars

InitDb == DbInit /\ ClientIdle /\ SchedIdle /\ ShowDbIdle /\ PgIdle /\ SearchIdle /\ HeapIdle /\ NormIdle /\ NyaaIdle /\ MatchIdle /\ RoundIdle /\ SeasonIdle /\ PageIdle /\ WatchIdle

SpecDb == InitDb /\ [][DbNext]_vars

InitNorm == NormInit /\ ClientIdle /\ SchedIdle /\ ShowDbIdle /\ DbIdle /\ PgIdle /\ SearchIdle /\ HeapIdle /\ NyaaIdle /\ MatchIdle /\ RoundIdle /\ SeasonIdle /\ PageIdle /\ WatchIdle

SpecNorm == InitNorm /\ [][NormNext]_vars

InitNyaa == NyaaInit /\ ClientIdle /\ SchedIdle /\ ShowDbIdle /\ DbIdle /\ PgIdle /\ SearchIdle /\ NormIdle /\ HeapIdle /\ MatchIdle /\ RoundIdle /\ SeasonIdle /\ PageIdle /\ WatchIdle

SpecNyaa == InitNyaa /\ [][NyaaNext]_vars

InitMatch == MatchInit /\ ClientIdle /\ SchedIdle /\ ShowDbIdle /\ DbIdle /\ PgIdle /\ SearchIdle /\ NormIdle /\ NyaaIdle /\ HeapIdle /\ RoundIdle /\ SeasonIdle /\ PageIdle /\ WatchIdle

SpecMatch == InitMatch /\ [][MatchNext]_vars

InitRound == RoundInit /\ ClientIdle /\ SchedIdle /\ ShowDbIdle /\ DbIdle /\ PgIdle /\ SearchIdle /\ NormIdle /\ NyaaIdle /\ MatchIdle /\ HeapIdle /\ SeasonIdle /\ PageIdle /\ WatchIdle

SpecRound == InitRound /\ [][RoundNext]_vars

InitSeason == SeasonInit /\ ClientIdle /\ SchedIdle /\ ShowDbIdle /\ DbIdle /\ PgIdle /\ SearchIdle /\ NormIdle /\ NyaaIdle /\ MatchIdle /\ RoundIdle /\ HeapIdle /\ PageIdle /\ WatchIdle

SpecSeason == InitSeason /\ [][SeasonNext]_vars

InitPage == PageInit /\ ClientIdle /\ SchedIdle /\ ShowDbIdle /\ DbIdle /\ PgIdle /\ SearchIdle /\ NormIdle /\ NyaaIdle /\ MatchIdle /\ RoundIdle /\ SeasonIdle /\ HeapIdle /\ WatchIdle

SpecPage == InitPage /\ [][PageNext]_vars

InitWatch == WatchInit /\ ClientIdle /\ SchedIdle /\ ShowDbIdle /\ DbIdle /\ PgIdle /\ SearchIdle /\ NormIdle /\ NyaaIdle /\ MatchIdle /\ RoundIdle /\ SeasonIdle /\ PageIdle /\ HeapIdle

SpecWatch == InitWatch /\ [][WatchNext]_vars

\* The tasks run: a task at notified() with a permit goes on, and a task past
\* notified() gets to its query
SpecWatchLive ==
    /\ InitWatch
    /\ [][WatchNext]_vars
    /\ \A k \in Notifiers : WF_vars(Notified(k)) /\ WF_vars(ReadRow(k))

(***************************************************************************)
(* Properties of the Anilist client                                        *)
(***************************************************************************)

InFlight == { c \in Callers : c_pc[c] = "inflight" }

\* C1: at no time are two request attempts in flight; a caller that has an
\* attempt in flight (or sleeps inside request) is the holder of the lock, so
\* the lock is not released before the attempt has completed.
C1_SingleFlight ==
    /\ Cardinality(InFlight) <= 1
    /\ \A c \in Callers : c_pc[c] \in {"gap", "inflight", "backoff"} => c_lock = c

\* C1 witness: one caller has an attempt in flight while another one is
\* queued for the lock.
C1_Witness ==
    \E c, d \in Callers : c # d /\ c_pc[c] = "inflight" /\ c_pc[d] = "lock"

\* C2 as stated: every attempt starts at least 1 second after the start of
\* the attempt before it.
C2_Original == c_startGap = -1 \/ c_startGap >= 1

\* C2 amended: every attempt starts at least 1 second after the instant the
\* attempt before it was due: the start of that attempt when it was a retry
\* or was sent without waiting, the deadline of its gap sleep when it waited
\* for the gap (the two differ when the gap timer completes late).
C2_GapSinceDue ==
    /\ c_dueGap = -1 \/ c_dueGap >= 1
    /\ c_sinceDue >= c_sinceStart

\* C2 witness: a first attempt of one call was sent exactly one second after
\* the start of the attempt before it.
C2_Witness ==
    \E c \in Callers :
        /\ c_pc[c] = "inflight"
        /\ ~c_isRetry[c]
        /\ c_sinceStart = 0
        /\ c_startGap = 1
        /\ c_dueGap = 1

\* The delay C3 states for a failed attempt
C3_Delay(o) == IF o.kind = "retry_after" THEN o.n + 10 ELSE 60

\* C3: after a failed attempt request sleeps N + 10 seconds for a response
\* with Retry-After: N and 60 seconds for any other failure; the retry is
\* not sent before the sleep has elapsed, and the gap timer then holds the
\* moment the retry starts.
C3_BackoffThenRetry ==
    \A c \in Callers :
        /\ c_pc[c] = "backoff" =>
              /\ c_err[c].kind # "ok"
              /\ c_timer[c] > 0 => c_sinceFail[c] + c_timer[c] = C3_Delay(c_err[c])
              /\ c_timer[c] <= 0 => c_sinceFail[c] >= C3_Delay(c_err[c])
        /\ (c_pc[c] = "inflight" /\ c_isRetry[c]) =>
              /\ c_retrySlept[c] >= C3_Delay(c_err[c])
              /\ c_markLag = 0

\* C3 witness: a retry is in flight that was sent 12 seconds after a response
\* with Retry-After: 2, and another one 60 seconds after a transport error.
C3_Witness ==
    \E c \in Callers :
        /\ c_pc[c] = "inflight"
        /\ c_isRetry[c]
        /\ c_err[c] = [kind |-> "retry_after", n |-> 2]
        /\ c_retrySlept[c] = 12
        /\ c_sinceStart = 0


(***************************************************************************)
(* Properties of the scheduler                                             *)
(***************************************************************************)

\* The loop has left update() behind and is in, or about to enter, wait()
AfterUpdate == s_pc \in {"refresh", "read", "select", "waitErr"}

\* C4, as stated: once the notifier has fired and the waiting scheduler has
\* taken notice, the wait is over and the work function is invoked.
C4_Original == s_wake = "notifier" => s_pc = "work"

\* C4: the wait ends, and the work function is invoked, only when the sleep
\* until L + P completes for the value L that wait_ read last; a notifier
\* that fires first does not end the wait: the scheduler reads L from
\* state[key] again and waits again (or sleeps 5 minutes when the read
\* fails).
C4_WaitEndsOnSleepOnly ==
    /\ s_pc = "work" => s_wake = "sleep" /\ s_wakeAge >= SchedPeriod
    /\ s_wake = "notifier" => s_pc \in {"read", "select", "waitErr"}

\* The work function is invoked after a wait in which the notifier fired
C4_Witness == s_pc = "work" /\ s_reread /\ s_wake = "sleep"

\* C5, as stated: after a successful work function state[key] has been
\* written by the time the scheduler waits again; after a failed one it is
\* not written and the wait starts after 5 minutes at the earliest.
C5_Original ==
    /\ (AfterUpdate /\ s_work = "ok") => s_upd = "written" /\ s_wroteSince
    /\ s_work = "err" =>
          /\ ~s_wroteSince
          /\ AfterUpdate => s_slept >= FiveMinutes

\* C5: after a successful work function the scheduler tries to write
\* state[key] with the time taken on entry to the update, before it waits
\* again, whether or not a notifier woke it; when that write fails (no
\* connection, query error) state[key] is not written and the scheduler
\* sleeps for the period P before it waits again.  After a failed work
\* function state[key] is not written by the scheduler and the next wait
\* starts after a sleep of 5 minutes at the earliest.
C5_WriteOrSleepPeriod ==
    /\ (AfterUpdate /\ s_work = "ok") =>
          \/ s_upd = "written" /\ s_wroteSince /\ s_writeDiff = 0
          \/ s_upd = "failed" /\ ~s_wroteSince /\ s_slept >= SchedPeriod
    /\ s_work = "err" =>
          /\ ~s_wroteSince
          /\ AfterUpdate => s_slept >= FiveMinutes

\* A work function that ran after a notifier-triggered wake succeeded, and
\* its update wrote state[key]
C5_Witness ==
    /\ s_pc = "refresh"
    /\ s_work = "ok"
    /\ s_upd = "written"
    /\ s_reread
    /\ s_lastAge = s_sinceUpd

(***************************************************************************)
(* Properties of the show database holder                                  *)
(***************************************************************************)

\* A ShowDb whose two halves were read by one load from one state of the
\* database
SingleLoad(db) ==
    /\ db.showsLoad # 0
    /\ db.showsLoad = db.namesLoad
    /\ db.shows = db.names

\* C6: under any interleaving of get and refresh, the ShowDb a get returned
\* was built by a single load, was published in the holder (before a
\* refresh or by it), and stays what it was when get returned, also after a
\* refresh has swapped the holder to another one.
C6_AtomicSnapshot ==
    \A t \in Tasks :
        d_held[t] # 0 =>
            /\ d_held[t] \in d_published
            /\ d_held[t] \in 1..Len(d_objs)
            /\ SingleLoad(d_seen[t])
            /\ d_objs[d_held[t]] = d_seen[t]

\* A task still holds the ShowDb it got before a refresh published another
\* one, built from a later state of the database, that a second task got
C6_Witness ==
    \E t, u \in Tasks :
        /\ d_held[t] # 0
        /\ d_held[u] = d_show_db
        /\ d_held[t] # d_show_db
        /\ d_seen[t].shows # d_seen[u].shows

(***************************************************************************)
(* Properties of the connection holder                                     *)
(***************************************************************************)

\* The handle the latest borrow of t returned is a connection that was alive
\* when that borrow probed it, and that was created after every connection
\* found failed before that borrow was called
C7_LaterBorrowsNew ==
    \A t \in Borrowers :
        p_handle[t] # 0 =>
            /\ p_retAlive[t]
            /\ p_handle[t] > p_known[t]

\* A step changes the handle of a borrower only when that borrower drops it
C7_HandlesKept ==
    \A t \in Borrowers :
        (p_handle[t] # 0 /\ p_handle'[t] # p_handle[t]) =>
            p_handle'[t] = 0 /\ p_pc[t] = "idle" /\ p_pc'[t] = "idle"

\* C7: once a borrower has found the held connection failed, every later
\* borrow that returns Ok returns a different connection, created after the
\* failed one, that passed the liveness probe of that borrow; the handles
\* earlier borrows returned keep referring to the old connection until they
\* are dropped.
C7_BorrowAfterFailure == []C7_LaterBorrowsNew /\ [][C7_HandlesKept]_vars

\* A borrow called after connection k was found failed has returned a newer
\* connection, the one the holder has now, while another borrower still
\* holds its handle to k
C7_Witness ==
    \E t, u \in Borrowers :
        /\ p_handle[t] # 0
        /\ p_known[t] # 0
        /\ p_handle[u] = p_known[t]
        /\ p_pg = p_handle[t]

(***************************************************************************)
(* Properties of search                                                    *)
(***************************************************************************)

\* The distinct shows S of the entry
EntryShows == Range(q_entry)

\* The shows of S that match the season, the year
SeasonMatching ==
    { i \in EntryShows :
        \/ q_meta.season = None /\ q_shows[i].seasons = {}
        \/ q_meta.season # None /\ q_meta.season[1] \in q_shows[i].seasons }

YearMatching ==
    { i \in EntryShows : q_meta.year # None /\ q_meta.year[1] \in q_shows[i].years }

\* The set the tie-breaking rule selects
RuleSelected ==
    LET both == SeasonMatching \cap YearMatching
        season_only == SeasonMatching \ YearMatching
    IN  IF both # {} THEN both
        ELSE IF Cardinality(season_only) = 1 THEN season_only
        ELSE IF Cardinality(YearMatching) = 1 THEN YearMatching
        ELSE IF season_only # {} THEN season_only
        ELSE EntryShows

\* C10: on an exact-map hit with two or more distinct shows, search selects
\* the shows matching season and year if any; else the season-only matches
\* if exactly one; else the year matches if exactly one; else the
\* season-only matches if non-empty; else all the shows; it returns the
\* selected show iff exactly one show is selected and fails otherwise.
C10_TieBreaking ==
    (q_pc = "done" /\ Cardinality(EntryShows) >= 2) =>
        /\ q_res.ok <=> Cardinality(RuleSelected) = 1
        /\ q_res.ok => q_res.show \in RuleSelected
        /\ ~q_res.ok => q_res.n = Cardinality(RuleSelected)

\* Three shows where none matches season and year, two match the season
\* only and one the year: search returned the one matching the year
C10_Witness ==
    /\ q_pc = "done"
    /\ Cardinality(EntryShows) = 3
    /\ SeasonMatching \cap YearMatching = {}
    /\ Cardinality(SeasonMatching) = 2
    /\ Cardinality(YearMatching) = 1
    /\ q_res.ok
    /\ q_res.show \in YearMatching

(***************************************************************************)
(* Properties of the heap                                                  *)
(***************************************************************************)

\* The key as AsciiHeap::new stores it: lowercased, then filtered to [a-z0-9]
RECURSIVE ProcessKey(_)
ProcessKey(s) ==
    IF Len(s) = 0 THEN << >>
    ELSE LET c == to_ascii_lowercase(s[1])
         IN (IF IsLowerAlnum(c) THEN << c >> ELSE << >>) \o ProcessKey(Tail(s))

\* The query as AsciiHeap::find reads it: filtered to [a-z0-9], not lowercased
RECURSIVE FilterQuery(_)
FilterQuery(s) ==
    IF Len(s) = 0 THEN << >>
    ELSE (IF IsLowerAlnum(s[1]) THEN << s[1] >> ELSE << >>) \o FilterQuery(Tail(s))

HasUpper(s) == \E i \in 1..Len(s) : s[i] >= 65 /\ s[i] <= 90

Prefixes(s) == { SubSeq(s, 1, n) : n \in 0..Len(s) }

\* Every inserted key and every prefix of one (the empty prefix included)
KeyPrefixes(strs) == { << >> } \cup UNION { Prefixes(ProcessKey(strs[i].key)) : i \in 1..Len(strs) }

LongestPrefixIn(s, P) ==
    CHOOSE p \in Prefixes(s) \cap P : \A p2 \in Prefixes(s) \cap P : Len(p2) <= Len(p)

\* The key of the node at index idx: the letters on the path from the root
RECURSIVE NodeKey(_, _)
NodeKey(heap, idx) ==
    IF idx = 0 THEN << >>
    ELSE LET ps == { j \in 0..(idx - 1) : idx \in NodeChildren(heap.nodes[j + 1]) }
         IN IF ps = {} THEN << -1 >>
            ELSE Append(NodeKey(heap, CHOOSE j \in ps : TRUE), heap.nodes[idx + 1].letter)

\* C8 as stated: for every input pair whose key keeps at least one byte after
\* lowercasing and filtering, iter(find(key)) yields the pair's payload.
C8_Original ==
    (h_pc = "found" /\ Len(ProcessKey(h_strs[h_arg].key)) > 0)
        => h_strs[h_arg].payload \in Range(h_out.out)

\* C8 amended: for every input pair whose key holds no ASCII uppercase letter
\* and keeps at least one byte after filtering to [a-z0-9], iter(find(key))
\* terminates and yields the pair's payload.
C8_IterFindYieldsPayload ==
    (h_pc = "found" /\ Len(ProcessKey(h_strs[h_arg].key)) > 0
                    /\ ~HasUpper(h_strs[h_arg].key))
        => (h_out.finished /\ h_strs[h_arg].payload \in Range(h_out.out))

\* C8 witness: find descended two levels for a key shared by two pairs and the
\* iteration yielded the payload of the second pair.
C8_Witness ==
    /\ h_pc = "found"
    /\ h_arg = 2
    /\ ~HasUpper(h_strs[2].key)
    /\ Len(ProcessKey(h_strs[2].key)) >= 2
    /\ ProcessKey(h_strs[1].key) = ProcessKey(h_strs[2].key)
    /\ h_idx > 0
    /\ h_strs[2].payload \in Range(h_out.out)

\* C9 as stated: find lowercases and filters the query and returns the node
\* whose key is the longest prefix of that processed query present as an
\* inserted key or a prefix of one (the root when there is none).
C9_Original ==
    h_pc = "queried"
        => NodeKey(h_heap, h_idx) = LongestPrefixIn(ProcessKey(h_query), KeyPrefixes(h_strs))

\* C9 amended: find filters the query to [a-z0-9] without lowercasing it
\* (uppercase bytes are skipped) and returns the node whose key is the longest
\* prefix of the filtered query that is an inserted key or a prefix of one; it
\* returns the root when there is no such non-empty prefix.
C9_FindLongestPrefix ==
    h_pc = "queried"
        => /\ h_idx \in 0..(Len(h_heap.nodes) - 1)
           /\ NodeKey(h_heap, h_idx) = LongestPrefixIn(FilterQuery(h_query), KeyPrefixes(h_strs))
           /\ (FilterQuery(h_query) = << >> => h_idx = 0)

\* C9 witness: the query holds a skipped byte, find descended to a non-root
\* node and stopped before the end of the filtered query.
C9_Witness ==
    /\ h_pc = "queried"
    /\ h_idx > 0
    /\ Len(FilterQuery(h_query)) < Len(h_query)
    /\ Len(NodeKey(h_heap, h_idx)) < Len(FilterQuery(h_query))

\* The indices of the node array, and the children of the node at index i
NodeIdxs == 0..(Len(h_heap.nodes) - 1)

ChildrenAt(i) == NodeChildren(h_heap.nodes[i + 1])

\* The first letters of the keys AsciiHeap::new was given
FirstLetters ==
    { ProcessKey(h_strs[i].key)[1] :
        i \in { j \in 1..Len(h_strs) : ProcessKey(h_strs[j].key) # << >> } }

\* C20: in every heap built by AsciiHeap::new the child range of a node at
\* index i > 0 lies above i and inside the node array; no two children of
\* one node (the root included) carry the same letter; the nodes of depth 1
\* occupy exactly the indices 1..=num_single_letter; the child ranges of
\* distinct nodes are pairwise disjoint and every non-root node is the
\* child of exactly one node.
C20_HeapLayout ==
    h_pc # "input" =>
        /\ \A i \in NodeIdxs \ {0} : \A c \in ChildrenAt(i) : c > i /\ c \in NodeIdxs
        /\ \A i \in NodeIdxs : \A c, d \in ChildrenAt(i) :
              c # d => h_heap.nodes[c + 1].letter # h_heap.nodes[d + 1].letter
        /\ ChildrenAt(0) = 1..Cardinality(FirstLetters)
        /\ { h_heap.nodes[c + 1].letter : c \in ChildrenAt(0) } = FirstLetters
        /\ \A i, j \in NodeIdxs : i # j => ChildrenAt(i) \cap ChildrenAt(j) = {}
        /\ \A c \in NodeIdxs \ {0} :
              Cardinality({ i \in NodeIdxs : c \in ChildrenAt(i) }) = 1

\* A heap of four nodes in which a node below the root has two children
C20_Witness ==
    /\ h_pc = "built"
    /\ Len(h_heap.nodes) = 4
    /\ \E i \in NodeIdxs \ {0} : Cardinality(ChildrenAt(i)) = 2

(***************************************************************************)
(* Properties of build_db and of search on the built database              *)
(***************************************************************************)

\* The search key derived from the name of row i of load_names
DerivedKey(i) == NameLoop(b_shows[b_names[i].show], b_names[i].name).key

\* The payloads stored at the node with index idx
PayloadsAt(heap, idx) ==
    { heap.payloads[k] :
        k \in (heap.nodes[idx + 1].payloads.start + 1)..heap.nodes[idx + 1].payloads.end }

\* The nodes of the sub-tree rooted at idx, idx included
SubTree(heap, idx) ==
    { j \in 0..(Len(heap.nodes) - 1) : NodeKey(heap, idx) \in Prefixes(NodeKey(heap, j)) }

\* The distinct shows carried by the sub-tree rooted at idx
SubTreeShows(heap, idx) == UNION { PayloadsAt(heap, j) : j \in SubTree(heap, idx) }

FallbackTaken == b_pc = "searched" /\ search_name(b_title) \notin DOMAIN b_db.map

\* C12: when the map has no entry for the search key and the sub-tree rooted
\* at heap.find(search_key) carries payloads of exactly one distinct show,
\* search returns that show, wherever its node lies in the sub-tree and
\* however often its index is repeated; when the sub-tree carries two or
\* more distinct shows, search fails.
C12_FallbackUnique ==
    FallbackTaken =>
        LET shows == SubTreeShows(b_db.heap, find(b_db.heap, search_name(b_title)))
        IN  /\ Cardinality(shows) = 1 => b_res.ok /\ b_res.show \in shows
            /\ Cardinality(shows) >= 2 => ~b_res.ok

\* The fallback returned a show whose index is stored twice at a node
\* strictly below the node found
C12_Witness ==
    /\ FallbackTaken
    /\ b_res.ok
    /\ LET idx == find(b_db.heap, search_name(b_title))
       IN  \E j \in SubTree(b_db.heap, idx) \ {idx} :
              LET node == b_db.heap.nodes[j + 1]
              IN  /\ node.payloads.end - node.payloads.start >= 2
                  /\ PayloadsAt(b_db.heap, j) = {b_res.show}

\* C13: for every (show, name) pair whose derived search key is not empty,
\* the map entry of that key contains the show's index and the heap node
\* whose key equals the search key carries the show's index as a payload.
C13_NamesIndexed ==
    b_pc # "input" =>
        \A i \in 1..Len(b_names) :
            LET key == DerivedKey(i)
                idx == find(b_db.heap, key)
            IN  key # << >> =>
                    /\ key \in DOMAIN b_db.map
                    /\ b_names[i].show \in Range(b_db.map[key])
                    /\ NodeKey(b_db.heap, idx) = key
                    /\ b_names[i].show \in PayloadsAt(b_db.heap, idx)

\* Names of two different shows have the same non-empty search key
C13_Witness ==
    /\ b_pc = "built"
    /\ \E i, j \in 1..Len(b_names) :
          /\ b_names[i].show # b_names[j].show
          /\ DerivedKey(i) = DerivedKey(j)
          /\ DerivedKey(i) # << >>

\* C14 as stated: the map of a built database has no entry whose key is the
\* empty string.
C14_Original == b_pc # "input" => << >> \notin DOMAIN b_db.map

NoRepeat(list) == \A i, j \in 1..Len(list) : list[i] = list[j] => i = j

\* C15 as stated: in a built database the lists seasons, years and formats
\* of every show hold no value twice, and formats is not empty.
C15_Original ==
    b_pc # "input" =>
        \A i \in DOMAIN b_db.shows :
            /\ NoRepeat(b_db.shows[i].seasons)
            /\ NoRepeat(b_db.shows[i].years)
            /\ NoRepeat(b_db.shows[i].formats)
            /\ b_db.shows[i].formats # << >>

(***************************************************************************)
(* Properties of title normalization                                       *)
(***************************************************************************)

\* C19 as stated: normalizing a normalized title changes nothing, for every
\* raw title, titles without spaces that hold both '_' and '.' included.
C19_Original == n_pc = "twice" => n_twice = n_once

(***************************************************************************)
(* Properties of the scrape                                                *)
(***************************************************************************)

\* The store rows with a given nyaa_id
RowsOf(store, nyaa_id) == { k \in 1..Len(store) : store[k].nyaa_id = nyaa_id }

Committed == y_pc = "done" /\ y_torrents # << >>

\* C16: in a scrape that commits, a torrent whose nyaa_id was in the store
\* is not inserted again and find_show is not called for it; every torrent
\* inserted by the scrape goes through find_show, gets a link exactly when
\* find_show succeeds and stays unmatched when it fails, whatever the
\* results for the other torrents of the batch; what the store held before
\* is kept.
C16_ScrapeMatching ==
    Committed =>
        /\ SubSeq(y_store, 1, Len(y_old.store)) = y_old.store
        /\ y_old.links \subseteq y_links
        /\ \A i \in 1..Len(y_torrents) :
              LET t == y_torrents[i]
              IN  /\ Cardinality(RowsOf(y_store, t.nyaa_id)) = 1
                  /\ RowsOf(y_old.store, t.nyaa_id) # {} =>
                        /\ t.torrent_id = 0
                        /\ i \notin y_ran
                  /\ t.torrent_id # 0 =>
                        /\ t.torrent_id \in RowsOf(y_store, t.nyaa_id)
                        /\ t.torrent_id > Len(y_old.store)
                        /\ i \in y_ran
                        /\ y_store[t.torrent_id].matched = (t.show # 0)
                        /\ { l \in y_links : l.torrent_id = t.torrent_id }
                             = IF t.show # 0
                               THEN { [torrent_id |-> t.torrent_id, show |-> t.show] }
                               ELSE {}
        /\ \A n \in { y_torrents[i].nyaa_id : i \in 1..Len(y_torrents) } :
              RowsOf(y_old.store, n) = {} =>
                  \E i \in 1..Len(y_torrents) :
                      y_torrents[i].nyaa_id = n /\ y_torrents[i].torrent_id # 0

\* A committed batch with a torrent that was in the store, a new torrent
\* find_show fails for, and after it a new torrent that gets its link
C16_Witness ==
    /\ Committed
    /\ \E i, j, k \in 1..Len(y_torrents) :
          /\ RowsOf(y_old.store, y_torrents[i].nyaa_id) # {}
          /\ j < k
          /\ y_torrents[j].torrent_id # 0 /\ y_torrents[j].show = 0
          /\ y_torrents[k].torrent_id # 0 /\ y_torrents[k].show # 0

\* The well-formed rows of the pages fetched
GoodRows == UNION { { p[i] : i \in { j \in 1..Len(p) : p[j].ok } } :
                    p \in Range(y_pages) }

MalformedSeen == \E p \in Range(y_pages) : \E i \in 1..Len(p) : ~p[i].ok

\* C18 as stated: when a fetched page holds a malformed row, the scrape is
\* not aborted and the well-formed rows of all fetched pages are ingested.
C18_Original ==
    MalformedSeen =>
        /\ y_pc # "failed"
        /\ y_pc = "done" => \A r \in GoodRows : RowsOf(y_store, r.nyaa_id) # {}

(***************************************************************************)
(* Properties of the rematch run                                           *)
(***************************************************************************)

\* The torrents that had no link when the run began
Unlinked == { i \in 1..Len(m_old.torrents) : ~\E l \in m_old.links : l.torrent_id = i }

\* The links find_show gives to the torrents of a set
NewLinks(ids) ==
    { [torrent_id |-> i, show |-> m_old.torrents[i].show] :
        i \in { j \in ids : m_old.torrents[j].show # 0 } }

\* C17: a rematch run acts by the mode read at its start.  With None (value
\* 0 or any value other than 1 and 2) no torrent row and no link is changed
\* and find_show is not called; a committed run with Unmatched (value 1)
\* keeps every link and calls find_show exactly for the torrents without a
\* link; a committed run with All (value 2) removes all links and calls
\* find_show for every torrent.
C17_RematchModes ==
    m_pc = "done" =>
        /\ m_mode = "None" =>
              /\ m_torrents = m_old.torrents
              /\ m_links = m_old.links
              /\ m_ran = {}
        /\ (m_mode = "Unmatched" /\ m_end = "committed") =>
              /\ m_ran = Unlinked
              /\ m_links = m_old.links \cup NewLinks(Unlinked)
        /\ (m_mode = "All" /\ m_end = "committed") =>
              /\ m_ran = 1..Len(m_old.torrents)
              /\ m_links = NewLinks(1..Len(m_old.torrents))

\* A committed run with Unmatched over a torrent linked to another show than
\* find_show returns for it now, and a torrent without a link that gets one
C17_Witness ==
    /\ m_pc = "done"
    /\ m_mode = "Unmatched"
    /\ m_end = "committed"
    /\ \E l \in m_old.links : m_old.torrents[l.torrent_id].show \notin {0, l.show}
    /\ \E i \in Unlinked : m_old.torrents[i].show # 0


(***************************************************************************)
(* find_show on the title made from a name                                 *)
(***************************************************************************)
\* The search key build_db derives from row k
RomajiKey(k) == NamesLoop(r_shows, r_names, 1, << >>).ranges[k].key

\* The search keys of the names of the other shows
OtherKeys(k) ==
    { RomajiKey(j) : j \in { j \in 1..Len(r_names) : r_names[j].show # r_names[k].show } }

StrictPrefix(a, b) == Len(a) < Len(b) /\ SubSeq(b, 1, Len(a)) = a

\* C11: for a show whose romaji name has a non-empty search key that is not
\* a strict prefix of the search key of another show, find_show on
\* "[Group] {romaji} - 01 [720p].mkv" returns that show.
C11_Original ==
    (/\ r_pc = "found"
     /\ RomajiKey(r_romaji) # << >>
     /\ \A key \in OtherKeys(r_romaji) : ~StrictPrefix(RomajiKey(r_romaji), key))
    => (r_res.ok /\ r_res.show = r_names[r_romaji].show)


(***************************************************************************)
(* Properties of AsciiHeap::iter                                           *)
(***************************************************************************)
\* The payloads of the input pairs whose processed key is `key`
PayloadsOfKey(key) ==
    { h_strs[i].payload : i \in { j \in 1..Len(h_strs) : ProcessKey(h_strs[j].key) = key } }

\* The iteration from h_idx ended and yielded the payloads of the sub-tree
\* rooted at h_idx, each once
IterYieldsSubTree ==
    /\ h_out.finished
    /\ Range(h_out.out) = SubTreeShows(h_heap, h_idx)
    /\ \A m, n \in 1..Len(h_out.out) : m # n => h_out.out[m] # h_out.out[n]

\* The node at index j holds one payload slot for every payload of `expected`
Attached(j, expected) ==
    /\ PayloadsAt(h_heap, j) = expected
    /\ h_heap.nodes[j + 1].payloads.end - h_heap.nodes[j + 1].payloads.start
          = Cardinality(expected)

\* C21 as stated: iter(idx) ends and yields exactly the payloads attached to
\* the nodes of the sub-tree rooted at idx, each stored payload once; the
\* payloads attached to a node, the root included, are exactly those of the
\* input pairs whose processed key is the key of the node.
C21_Original ==
    h_pc = "iterated" =>
        /\ IterYieldsSubTree
        /\ \A j \in NodeIdxs : Attached(j, PayloadsOfKey(NodeKey(h_heap, j)))

\* C21 amended: iter(idx) ends and yields exactly the payloads attached to
\* the nodes of the sub-tree rooted at idx, each stored payload once; the
\* payloads attached to a node below the root are exactly those of the input
\* pairs whose processed key is the key of the node, and the root holds no
\* payload (a pair whose processed key is empty is stored nowhere).
C21_IterSubTree ==
    h_pc = "iterated" =>
        /\ IterYieldsSubTree
        /\ \A j \in NodeIdxs \ {0} : Attached(j, PayloadsOfKey(NodeKey(h_heap, j)))
        /\ Attached(0, {})

\* The iteration started at a node below the root that has a payload of its
\* own and a child with another payload, and yielded both
C21_Witness ==
    /\ h_pc = "iterated"
    /\ h_idx > 0
    /\ PayloadsAt(h_heap, h_idx) # {}
    /\ Len(h_out.out) = 2
    /\ Cardinality(SubTree(h_heap, h_idx)) >= 2


(***************************************************************************)
(* Properties of find_season                                               *)
(***************************************************************************)
\* The non-overlapping matches of the season pattern in s, from left to
\* right: each is searched from the end of the one before it
RECURSIVE SeasonMatchesFrom(_, _)
SeasonMatchesFrom(s, i) ==
    With(CapturesFrom(SEASON, s, i), LAMBDA ca :
        IF ~ca.found THEN << >>
        ELSE << ca >> \o SeasonMatchesFrom(s, IF ca.end + 1 > i THEN ca.end + 1 ELSE i + 1))

\* The ordinal a match of the season pattern stands for
OrdinalOf(s, ca) ==
    LET num == Named(ca, "season1") \o Named(ca, "season2") \o Named(ca, "season3")
        word == SubSeq(s, Named(ca, "season4")[1].start + 1, Named(ca, "season4")[1].end)
    IN  IF num # << >> THEN ParseNum(SubSeq(s, num[1].start + 1, num[1].end))
        ELSE IF word = << 102, 105, 114, 115, 116 >> THEN 1
        ELSE IF word = << 115, 101, 99, 111, 110, 100 >> THEN 2
        ELSE 3

\* What C22 says find_season returns on s
LastSeason(s) ==
    With(SeasonMatchesFrom(s, 1), LAMBDA ms :
        IF ms = << >> THEN NotFound
        ELSE [found |-> TRUE, start |-> Last(ms).start, end |-> Last(ms).end,
              val |-> OrdinalOf(s, Last(ms))])

\* C22: find_season(s) returns the byte span and the ordinal of the last of
\* the non-overlapping matches of the season pattern in s, the ordinal being
\* the complete number of that match, and nothing iff there is no match.
C22_Original == e_pc = "done" => e_res = LastSeason(Concat(e_pieces))

\* ---------------------------------------------------------------------------
\* find_show: the order of its lookups

\* The position of a lookup in the fixed order
LookupRank(l) ==
    3 * l.search.call + (CASE l.search.step = "full" -> 0
                           [] l.search.step = "bar" -> 1
                           [] l.search.step = "shorter" -> 2)

\* The lookups of the log made in the given call of handle_pre_episode_range
\* at the given step
LookupsAt(call, step) ==
    { i \in 1..Len(r_log) : r_log[i].search.call = call /\ r_log[i].search.step = step }

\* The text up to the first '|'
UpToBar(t) ==
    LET bars == { i \in 1..Len(t) : t[i] = 124 }
    IN  IF bars = {} THEN t
        ELSE SubSeq(t, 1, (CHOOSE i \in bars : \A j \in bars : i <= j) - 1)

\* The lookups of one call of handle_pre_episode_range are the ones the range
\* of the call asks for, as long as the earlier ones failed
CallInOrder(call) ==
    LET full == LookupsAt(call, "full")
        bar == LookupsAt(call, "bar")
        shorter == LookupsAt(call, "shorter")
        range == r_an.ranges[call]
        failed(set) == \A i \in set : ~r_log[i].res.ok
    IN  /\ (full # {}) <=> (range.blocks > 0)
        /\ (bar # {}) <=> (/\ full # {} /\ failed(full)
                           /\ \E i \in full : 124 \in Range(r_log[i].search.title))
        /\ \A i \in bar : \A j \in full :
              r_log[i].search.title = UpToBar(r_log[j].search.title)
        /\ (shorter # {}) <=> (/\ full # {} /\ failed(full) /\ failed(bar)
                               /\ range.blocks >= 2 /\ range.delimited)

\* C23: find_show makes its lookups in a fixed order, each only after all the
\* earlier ones failed, and returns the first success: the full pre-episode
\* title; if that title contains '|', the text up to the first '|'; if the
\* range has at least 2 blocks and its last block is delimited, the range
\* without its last block; and only with the plain-digits flag the same chain
\* over the untruncated name range
C23_LookupOrder ==
    r_pc \in { "found", "looked" } =>
        LET n == Len(r_log)
            first == LookupsAt(1, "full") \cup LookupsAt(1, "bar") \cup LookupsAt(1, "shorter")
            second == LookupsAt(2, "full") \cup LookupsAt(2, "bar") \cup LookupsAt(2, "shorter")
        IN  /\ \A i \in 1..n : \A j \in 1..n : i < j =>
                  /\ LookupRank(r_log[i]) < LookupRank(r_log[j])
                  /\ ~r_log[i].res.ok
            /\ r_res.ok <=> (n > 0 /\ r_log[n].res.ok)
            /\ r_res.ok => r_res = r_log[n].res
            /\ first \cup second = 1..n
            /\ r_an.ranges # << >> => CallInOrder(1)
            /\ r_an.ranges = << >> => n = 0
            /\ ~r_an.plain => second = {}
            /\ r_an.plain => /\ Len(r_an.ranges) = 2
                             /\ r_an.ranges[2].blocks = r_an.name_range
                             /\ IF \A i \in first : ~r_log[i].res.ok
                                THEN CallInOrder(2) ELSE second = {}

\* A title with plain digits whose pre-episode title names no show and whose
\* untruncated name range does
C23_Witness ==
    /\ r_pc = "looked"
    /\ r_an.plain
    /\ Len(r_log) = 2
    /\ ~r_log[1].res.ok
    /\ r_log[2].search.call = 2
    /\ r_log[2].res.ok
    /\ r_res = r_log[2].res
\* ---------------------------------------------------------------------------
\* load_torrents_: the pages of one scrape

\* The page holds a record with nyaa_id + 74 <= max_nyaa_id
HasIngested(rows) == \E k \in 1..Len(rows) : rows[k].ok /\ rows[k].nyaa_id + IdSlack <= y_max

RECURSIVE AllTorrents(_, _)
AllTorrents(pages, n) ==
    IF n = 0 THEN << >> ELSE AllTorrents(pages, n - 1) \o PageTorrents(pages[n])

\* C24: a scrape asks for the pages 1, 2, ... in increasing order and for at
\* most PageLimit of them, asks for no page after the first page that holds a
\* record with nyaa_id + 74 <= max_nyaa_id (as read at the start), and the
\* records of that page are part of the batch
C24_Pages ==
    /\ y_asked = [k \in 1..Len(y_asked) |-> k]
    /\ Len(y_asked) <= PageLimit
    /\ \A k \in 1..Len(y_pages) : HasIngested(y_pages[k]) => k = Len(y_asked)
    /\ \A k \in 1..Len(y_pages) : HasIngested(y_pages[k]) => y_pc # "fetch"
    /\ y_pc = "ingest" => y_torrents = AllTorrents(y_pages, Len(y_pages))

\* The first of the pages holds an ingested record next to a new one: no
\* second page is asked for, and both records are in the batch
C24_Witness ==
    /\ y_pc = "ingest"
    /\ y_asked = << 1 >>
    /\ HasIngested(y_pages[1])
    /\ Len(y_torrents) = 2
    /\ \E k \in 1..2 : y_torrents[k].nyaa_id + IdSlack > y_max
\* ---------------------------------------------------------------------------
\* load_shows_page: records that cannot be parsed

\* The format or the season of the record cannot be parsed
Unparseable(x) ==
    \/ ~FormatFromAnilist(x.format).ok
    \/ x.season # << >> /\ ~SeasonFromAnilist(x.season[1]).ok

\* The tables after the first n records of the page with the unparseable
\* ones left out
RECURSIVE WithoutUnparseable(_, _)
WithoutUnparseable(store, n) ==
    IF n = 0 THEN store
    ELSE LET r == WithoutUnparseable(store, n - 1)
         IN  IF Unparseable(g_media[n]) THEN r
             ELSE MediaStep(r.shows, r.names, g_existing, g_media[n])

\* C25: a record of the page whose format or season cannot be parsed is
\* skipped without a write, and the other records of the page are gone
\* through and committed in the transaction of the page
C25_Original ==
    [][g_pc = "loop" /\ g_pc' = "done" =>
        /\ \A i \in 1..Len(g_media) : Unparseable(g_media[i]) => ~g_wrote[i]
        /\ LET r == WithoutUnparseable([shows |-> g_shows, names |-> g_names], Len(g_media))
           IN  g_shows' = r.shows /\ g_names' = r.names]_vars
\* The format is none of the six known ones, or the record has a season year
\* and a season that is none of the four known ones
FailsToParse(x) ==
    \/ x.format \notin { "TV", "TV_SHORT", "MOVIE", "SPECIAL", "OVA", "ONA" }
    \/ /\ x.season_year # << >>
       /\ x.season # << >>
       /\ x.season[1] \notin { "WINTER", "SPRING", "SUMMER", "FALL" }

\* The tables after the first n records of the page with the records that
\* fail to parse left out
RECURSIVE WithoutFailed(_, _)
WithoutFailed(store, n) ==
    IF n = 0 THEN store
    ELSE LET r == WithoutFailed(store, n - 1)
         IN  IF FailsToParse(g_media[n]) THEN r
             ELSE MediaStep(r.shows, r.names, g_existing, g_media[n])

\* C25 (amended): a record whose format is unknown, or which has a season
\* year and an unknown season, is skipped without a write, and the other
\* records of the page are gone through and committed in the transaction of
\* the page; the season of a record without season year is not parsed
C25_SkipUnparsed ==
    [][g_pc = "loop" /\ g_pc' = "done" =>
        /\ \A i \in 1..Len(g_media) : FailsToParse(g_media[i]) => ~g_wrote[i]
        /\ LET r == WithoutFailed([shows |-> g_shows, names |-> g_names], Len(g_media))
           IN  g_shows' = r.shows /\ g_names' = r.names]_vars

\* A page of two records is committed: the first has a season year and an
\* unknown season and nothing is written for it, the second is a new show
C25_Witness ==
    /\ g_pc = "done"
    /\ Len(g_media) = 2
    /\ FormatFromAnilist(g_media[1].format).ok
    /\ FailsToParse(g_media[1])
    /\ g_wrote = << FALSE, TRUE >>
    /\ Len(g_shows) = Cardinality(DOMAIN g_existing) + 1
    /\ g_shows[Len(g_shows)].anilist_id = g_media[2].id
\* ---------------------------------------------------------------------------
\* Scheduled::wait: what ends it

\* C26: wait returns, so that the work function runs, only from the select
\* and only when the sleep until L + P is over for the L read last (the clock
\* has reached L + P); a notifier taken by the select never ends the wait, it
\* sends wait_ back to read L again, and every select follows a read
C26_WaitReturns ==
    [][/\ (s_pc # "work" /\ s_pc' = "work") =>
             /\ s_pc = "select"
             /\ s_readAge >= SchedPeriod
             /\ s_notified' = s_notified
       /\ (s_pc = "select" /\ s_notified /\ ~s_notified') => s_pc' = "read"
       /\ (s_pc # "select" /\ s_pc' = "select") =>
             /\ s_pc = "read"
             /\ s_readAge' = s_lastAge]_vars

\* wait has returned although a notifier fired during it: the notifier made
\* wait_ read a row written in the meantime, and the sleep until that L + P
\* ended the wait exactly when the clock reached it
C26_Witness ==
    /\ s_pc = "work"
    /\ s_reread
    /\ s_wake = "sleep"
    /\ s_wakeAge = SchedPeriod
    /\ s_readAge = SchedPeriod
    /\ s_lastAge = SchedPeriod
    /\ ~s_notified
\* ---------------------------------------------------------------------------
\* AnilistClient::request: the guard during the retries

\* A caller past lock() holds the guard, and while it backs off or retries
\* every other caller is outside request or waiting for the guard
HoldsThroughRetries ==
    \A c \in DOMAIN c_pc :
        /\ c_pc[c] \in {"gap", "inflight", "backoff"} => c_lock = c
        /\ (c_pc[c] = "backoff" \/ (c_pc[c] = "inflight" /\ c_isRetry[c])) =>
              \A d \in DOMAIN c_pc \ {c} : c_pc[d] \in {"idle", "lock"}

\* C27: request holds the exclusive lock from before its first attempt until
\* it returns data, the backoff sleeps included: while a caller backs off or
\* retries no attempt of another caller is sent, the guard changes hands only
\* when request returns, and request returns only from an attempt that
\* ended in data
C27_LockThroughRetries ==
    [][/\ HoldsThroughRetries
       /\ HoldsThroughRetries'
       /\ \A c \in DOMAIN c_pc :
             /\ (c_lock = c /\ c_lock' # c) => c_pc[c] = "inflight" /\ c_pc'[c] = "idle"
             /\ (c_pc[c] # "idle" /\ c_pc'[c] = "idle") =>
                   /\ c_pc[c] = "inflight"
                   /\ c_err'[c] = NoErr
                   /\ c_lock = c /\ c_lock' = 0
             /\ (c_pc[c] # "inflight" /\ c_pc'[c] = "inflight") =>
                   \A d \in DOMAIN c_pc \ {c} : c_pc[d] \in {"idle", "lock"}]_vars

\* A caller sends its retry after a failed attempt and the backoff sleep
\* while the other caller is still waiting for the lock
C27_Witness ==
    \E c \in DOMAIN c_pc : \E d \in DOMAIN c_pc \ {c} :
        /\ c_pc[c] = "inflight"
        /\ c_isRetry[c]
        /\ c_err[c].kind = "transport"
        /\ c_retrySlept[c] >= MinuteSecs
        /\ c_lock = c
        /\ c_pc[d] = "lock"
\* ---------------------------------------------------------------------------
\* PgHolder: the version counter

\* The version is the number of connections created, and the connection held
\* is the one created last
VersionCountsCons ==
    /\ p_version = Len(p_cons)
    /\ p_pg = p_version

\* C28: the version never decreases and grows by exactly 1 with every
\* connection created; for a version v found failed or absent by several
\* borrowers and keep_connected one connection is created, by a task that
\* read v, and the others find the version moved on; a failed attempt gives
\* the lock back with the version and the connection held unchanged
C28_VersionPerConnection ==
    [][/\ VersionCountsCons
       /\ VersionCountsCons'
       /\ p_version' \in { p_version, p_version + 1 }
       /\ (p_version' = p_version + 1) <=> (Len(p_cons') = Len(p_cons) + 1)
       /\ (p_version' = p_version + 1) =>
             /\ p_lock # 0 /\ p_lock' = 0
             /\ p_pg' = Len(p_cons')
             /\ IF p_lock = Keeper THEN k_ver = p_version ELSE p_ver[p_lock] = p_version
       /\ (p_version' = p_version) => p_pg' = p_pg
       /\ (p_lock # 0 /\ p_lock' = 0 /\ Len(p_cons') = Len(p_cons)) =>
             p_version' = p_version /\ p_pg' = p_pg]_vars

\* Both borrowers found the connection of version 1 failed; one of them
\* created the connection of version 2, the other found the version moved on,
\* and both are back at reading the holder
C28_Witness ==
    /\ p_version = 2
    /\ Len(p_cons) = 2
    /\ ~p_cons[1]
    /\ p_pg = 2
    /\ p_lock = 0
    /\ \A t \in DOMAIN p_pc : p_pc[t] = "read" /\ p_ver[t] = 1 /\ p_con[t] = 1
\* ---------------------------------------------------------------------------
\* DbWatcher: the notifiers after a reconnect

\* C29: whenever the connection is made and the listen on state_change
\* succeeds every notifier is fired; a fired notifier is taken by its task,
\* only by it and only on its way to reading its state row, and the task
\* then reads the row; a payload that names no state row with a notifier
\* fires none
C29_NotifyAllOnListen ==
    /\ [][/\ (w_con = "connected" /\ w_con' = "listened") => \A k \in Notifiers : w_permit'[k]
          /\ (w_con' = w_con /\ w_last' \notin Notifiers \cup {""}) => w_permit' = w_permit
          /\ (w_con' = w_con /\ w_last' \in Notifiers) =>
                w_permit' = [w_permit EXCEPT ![w_last'] = TRUE]
          /\ \A k \in Notifiers :
                (w_permit[k] /\ ~w_permit'[k]) => w_pc[k] = "wait" /\ w_pc'[k] = "read"]_vars
    /\ \A k \in Notifiers : (w_permit[k] ~> (~w_permit[k] /\ w_pc[k] = "read"))
    /\ \A k \in Notifiers : (w_pc[k] = "read" ~> w_pc[k] = "wait")

\* After a reconnect the task of rematch_unmatched, which only ever stops
\* waiting for a notification, has taken its notification and is about to
\* read its row, while the notification of another task is still there
C29_Witness ==
    /\ w_con = "up"
    /\ w_pc["rematch_unmatched"] = "read"
    /\ ~w_permit["rematch_unmatched"]
    /\ w_permit["last_shows_update"]
    /\ w_permit["max_nyaa_si_id"]
    /\ w_pc["last_shows_update"] = "wait"
\* ---------------------------------------------------------------------------
\* ShowDbHolder: a load that fails

\* The step in which the load_db of task t fails
LoadFailed(t) == d_failed[t] = "none" /\ d_failed'[t] # "none"

\* C30: a refresh whose load fails returns the error and leaves the published
\* snapshot as it was, only the store of a refresh replaces a snapshot, and a
\* get returns the snapshot in the holder; a get whose load fails publishes
\* nothing, gives the lock back, and the next get that finds the holder empty
\* starts a load again
C30_FailedLoad ==
    [][/\ (d_show_db # 0 /\ d_show_db' # d_show_db) =>
            \E u \in DOMAIN d_pc :
                d_pc[u] = "refresh_lock" /\ d_pc'[u] = "idle" /\ d_show_db' = d_new[u]
       /\ \A t \in DOMAIN d_pc :
        /\ (LoadFailed(t) /\ d_pc[t] = "refresh_load") =>
              /\ d_failed'[t] = "refresh"
              /\ d_pc'[t] = "idle"
              /\ d_show_db' = d_show_db /\ d_objs' = d_objs /\ d_published' = d_published
              /\ d_lock' = d_lock /\ d_held' = d_held
        /\ (LoadFailed(t) /\ d_pc[t] = "get_load") =>
              /\ d_failed'[t] = "get"
              /\ d_pc'[t] = "idle"
              /\ d_show_db = 0 /\ d_show_db' = 0
              /\ d_objs' = d_objs /\ d_published' = d_published
              /\ d_lock = t /\ d_lock' = 0 /\ d_held' = d_held
        /\ (d_pc[t] = "get_lock" /\ d_pc'[t] # "get_lock") =>
              IF d_show_db # 0
              THEN d_pc'[t] = "idle" /\ d_held'[t] = d_show_db /\ d_show_db' = d_show_db
              ELSE d_pc'[t] = "get_load" /\ d_load'[t].id = d_loads + 1]_vars

\* The refresh of one task has failed, the snapshot published before it is
\* still the one in the holder, and the other task holds it from a get
C30_Witness ==
    \E t \in DOMAIN d_pc : \E u \in DOMAIN d_pc \ {t} :
        /\ d_failed[t] = "refresh"
        /\ d_pc[t] = "idle"
        /\ d_show_db # 0
        /\ d_published = { d_show_db }
        /\ d_loads = 2
        /\ d_objs[d_show_db].showsLoad = 1
        /\ d_pc[u] = "idle"
        /\ d_held[u] = d_show_db
====
